---- MODULE Spec2Model ----
(***************************************************************************)
(* Model of the shielded-transfer client of sip-mobile:                    *)
(*   - SipPrivacyClient.buildShieldedTransfer / fetchConfig / sendTransaction *)
(*     (src/src/types/seed-vault-lib.d.ts), specification Spec;             *)
(*   - executeSendFlow (src/unnamed/part_012), specification SpecSend;      *)
(*   - executeClaimFlow / executeMultiClaimFlow (src/unnamed/part_012) and  *)
(*     canClaim (src/unnamed/part_011), specification SpecClaim;            *)
(*   - executeScanFlow (src/tests/e2e/flows/scan.test.ts), SpecScan.        *)
(* An async function is cut at its awaits: the code between two awaits is   *)
(* one action.  Optional values (T | null) are sequences of length <= 1.   *)
(***************************************************************************)
EXTENDS Integers, Sequences, FiniteSets, TLC

VARIABLES
  \* ---- on-chain state read and written through the Connection
  configAccount,     \* the config PDA's account: None or Some(Config)
  transferRecords,   \* addresses of the transfer records created on chain
  \* ---- one entry per buildShieldedTransfer call
  pc,                \* where the call is suspended
  sender,            \* argument `sender`
  config,            \* local `config` (Config | null)
  steps,             \* the steps the call has performed, in order
  error,             \* message of the Error the call threw
  transferRecord,    \* local `transferRecordPda`
  transaction,       \* the returned transaction
  startTotal,        \* history: totalTransfers on chain when the call began
  \* ---- executeSendFlow
  sendPc,            \* where the flow is suspended
  sendParams,        \* argument `params` (recipient and amount strings)
  sendBalance,       \* argument `balance`
  sendStatus,        \* returned status
  sendResult,        \* returned result
  signCalls,         \* calls of signTransaction made by the flow
  signedTx,          \* local `signedTx` (Uint8Array | null)
  rpcCalls,          \* mockRpc methods called by the flow, in order
  shouldFail,        \* mockRpc.config.shouldFail
  \* ---- executeClaimFlow / executeMultiClaimFlow
  claimPc,           \* where the flow is suspended
  claimMode,         \* "single": executeClaimFlow, "multi": executeMultiClaimFlow
  claimPayments,     \* the payments to claim (one, or `payments`)
  claimIndex,        \* position of the loop in `payments`
  claimKeys,         \* argument `keys` is not null
  claimStatus,       \* status returned by the last executeClaimFlow
  claimResults,      \* `results`; history: rpc = network calls of that flow
  claimFlowRpc,      \* history: network calls of the running executeClaimFlow
  claimShouldFail,   \* mockRpc.config.shouldFail
  claimedCount,      \* history: confirmed claims per payment id
  \* ---- executeScanFlow
  scanPc,            \* where the flow is suspended
  announcements,     \* options.mockAnnouncements
  existingTxHashes,  \* argument `existingTxHashes`
  fromTimestamp,     \* options.fromTimestamp (0: not given)
  scanKeys,          \* argument `keys` is not null
  scanIndex,         \* loop variable `i` (0-based)
  scanResult,        \* `result`
  scanStage,         \* progress.stage
  scanRound,         \* history: 1 for a first scan, 2 for the scan repeated after it
  scanFirstFound,    \* history: `found` of the first scan
  scanBatchSizes,    \* history: length of each `batch` of the running scan
  scanCancelAt,      \* history: `scanned` when the caller asked to stop, -1 if never

  \* stealth meta-addresses: format and parse
  stealthPc,         \* "start", "formatted", "parsed", "validated"
  metaAddress,       \* the meta-address m, or None when a raw string is parsed
  stealthString,     \* the string formatted or given
  stealthParsed,     \* what the parser returned (None: null)
  addressValidation, \* what validateStealthAddress returned

  \* encodeShieldedTransferData on its own
  codecPc,           \* "start", "encoded", "decoded", "error"
  codecArgs,         \* `args`
  codecData,         \* the Buffer returned
  codecDecoded,      \* the fields read back from the Buffer

  \* one buildShieldedTransfer call at a time, with its data
  accountInfo,       \* the config account on chain: None, or Some(its data)
  xferPc,            \* where the call is suspended
  xferParams,        \* `params`
  xferConfig,        \* `config` (None: null)
  xferLocals,        \* the other locals of the call, None outside a call
  xferResult,        \* what the call returned (None: nothing)
  xferError,         \* message of the Error the call threw, "" if none
  xferFetch,         \* history: how the fetch of the config ended
  xferKeyLog,        \* history: call number of each ephemeral private key made
  xferCalls,         \* history: number of calls made

  \* the rate limiter of utils/security
  rateLimitMap,      \* action -> None, or Some([count, firstAttempt])
  now,               \* Date.now()
  rateParams,        \* the maxAttempts and windowMs the callers pass
  rateWindow,        \* history: action -> None, or Some(start and results of the window)
  rateLast,          \* history: the last call at this instant, None after time passed

  \* the useSend hook
  hookStatus,        \* `status`
  hookError,         \* `error` (None: null)
  hookTxHash,        \* `txHash` (None: null)
  hookPc,            \* where each send() call is suspended
  hookResult,        \* what each send() call returned (None: not yet)
  hookPayments,      \* the payments given to addPayment

  \* the PIN methods of useBiometrics
  securityStore,     \* the fields of useSecurityStore the PIN methods use
  pinCalls,          \* each verifyPin / setPin call: where it is suspended, what it captured
  pinNow,            \* Date.now()

  \* the module-level SipPrivacyClient
  clientInstance,    \* `clientInstance` (None: null)
  clientsMade,       \* how many SipPrivacyClient objects have been constructed
  clientLog,         \* the factory calls made so far, with what each returned

  \* the useSeedVault hook
  vault,             \* its state: wallet, isAvailable, isLoading, isInitialized, error
  vaultEnv,          \* the device: Platform.OS and whether the library loads
  vaultInit,         \* where the mount effect is suspended, and the seeds it listed
  vaultSelect,       \* each selectSeed call (0: the mount effect's own)
  vaultSign,         \* the signTransaction / signMessage call
  vaultEpoch,        \* how many times disconnect() has been called
  vaultReconnected   \* a selectSeed started after the last disconnect() has succeeded

buildVars == <<configAccount, transferRecords, pc, sender, config, steps,
               error, transferRecord, transaction, startTotal>>
sendVars == <<sendPc, sendParams, sendBalance, sendStatus, sendResult,
              signCalls, signedTx, rpcCalls, shouldFail>>
claimVars == <<claimPc, claimMode, claimPayments, claimIndex, claimKeys,
               claimStatus, claimResults, claimFlowRpc, claimShouldFail,
               claimedCount>>
scanVars == <<scanPc, announcements, existingTxHashes, fromTimestamp, scanKeys,
              scanIndex, scanResult, scanStage, scanRound, scanFirstFound,
              scanBatchSizes, scanCancelAt>>
stealthVars ==
  <<stealthPc, metaAddress, stealthString, stealthParsed, addressValidation>>
codecVars == <<codecPc, codecArgs, codecData, codecDecoded>>
xferVars == <<accountInfo, xferPc, xferParams, xferConfig, xferLocals,
              xferResult, xferError, xferFetch, xferKeyLog, xferCalls>>
rateVars == <<rateLimitMap, now, rateParams, rateWindow, rateLast>>
hookVars == <<hookStatus, hookError, hookTxHash, hookPc, hookResult, hookPayments>>
pinVars == <<securityStore, pinCalls, pinNow>>
clientVars == <<clientInstance, clientsMade, clientLog>>
vaultVars == <<vault, vaultEnv, vaultInit, vaultSelect, vaultSign, vaultEpoch, vaultReconnected>>
vars == <<buildVars, sendVars, claimVars, scanVars, stealthVars, codecVars,
          xferVars, rateVars, hookVars, pinVars, clientVars, vaultVars>>
notBuildVars == <<sendVars, claimVars, scanVars, stealthVars, codecVars, xferVars, rateVars, hookVars, pinVars, clientVars, vaultVars>>
notSendVars == <<buildVars, claimVars, scanVars, stealthVars, codecVars, xferVars, rateVars, hookVars, pinVars, clientVars, vaultVars>>
notClaimVars == <<buildVars, sendVars, scanVars, stealthVars, codecVars, xferVars, rateVars, hookVars, pinVars, clientVars, vaultVars>>
notScanVars == <<buildVars, sendVars, claimVars, stealthVars, codecVars, xferVars, rateVars, hookVars, pinVars, clientVars, vaultVars>>
notStealthVars == <<buildVars, sendVars, claimVars, scanVars, codecVars, xferVars, rateVars, hookVars, pinVars, clientVars, vaultVars>>
notCodecVars == <<buildVars, sendVars, claimVars, scanVars, stealthVars, xferVars, rateVars, hookVars, pinVars, clientVars, vaultVars>>
notXferVars == <<buildVars, sendVars, claimVars, scanVars, stealthVars, codecVars, rateVars, hookVars, pinVars, clientVars, vaultVars>>
notRateVars == <<buildVars, sendVars, claimVars, scanVars, stealthVars, codecVars, xferVars, hookVars, pinVars, clientVars, vaultVars>>
notHookVars == <<buildVars, sendVars, claimVars, scanVars, stealthVars, codecVars, xferVars, rateVars, pinVars, clientVars, vaultVars>>
notPinVars == <<buildVars, sendVars, claimVars, scanVars, stealthVars, codecVars, xferVars, rateVars, hookVars, clientVars, vaultVars>>
notClientVars == <<buildVars, sendVars, claimVars, scanVars, stealthVars, codecVars, xferVars, rateVars, hookVars, pinVars, vaultVars>>
notVaultVars == <<buildVars, sendVars, claimVars, scanVars, stealthVars, codecVars, xferVars, rateVars, hookVars, pinVars, clientVars>>

None == <<>>
Some(x) == <<x>>

(***************************************************************************)
(* Bounds                                                                  *)
(***************************************************************************)
NumCalls == 2
Calls == 1..NumCalls
MaxBatch == 2            \* payments in one executeMultiClaimFlow
MaxAnnouncements == 3    \* length of a hand-made options.mockAnnouncements
MaxTransfers == 2        \* buildShieldedTransfer calls made one after the other
Senders == {"alice", "bob"}

(***************************************************************************)
(* SipPrivacyClient                                                        *)
(***************************************************************************)
SIP_PRIVACY_PROGRAM_ID == "S1PMFspo4W6BYKHWkHNF7kZ3fnqibEXg3LQjxepS9at"

\* A program-derived address is a deterministic function of its seeds and the
\* program id.
getConfigPda(programId) == <<"config", programId>>
getTransferRecordPda(s, totalTransfers, programId) ==
  <<"transfer_record", s, totalTransfers, programId>>

ERR_NOT_INITIALIZED == "Program not initialized - config account not found"
ERR_PAUSED == "Program is paused"

\* The steps of buildShieldedTransfer, in the order of the source.
BuildSteps ==
  << "fetchConfig", "checkNotPaused", "generateEphemeralKeyPair",
     "deriveSharedSecret", "createCommitment", "encryptAmount",
     "computeViewingKeyHash", "generateMockProof", "getTransferRecordPda",
     "encodeShieldedTransferData", "getLatestBlockhash" >>

CryptoSteps ==
  { "generateEphemeralKeyPair", "deriveSharedSecret", "createCommitment",
    "encryptAmount", "computeViewingKeyHash", "generateMockProof" }

Did(c, step) == \E i \in 1..Len(steps[c]) : steps[c][i] = step
CountOf(c, step) == Cardinality({i \in 1..Len(steps[c]) : steps[c][i] = step})

Throw(c, msg) ==
  /\ pc' = [pc EXCEPT ![c] = "thrown"]
  /\ error' = [error EXCEPT ![c] = msg]

\* buildShieldedTransfer is called: it calls fetchConfig, which awaits
\* connection.getAccountInfo.
BuildStart(c, s) ==
  /\ pc[c] = "idle"
  /\ pc' = [pc EXCEPT ![c] = "fetchConfig"]
  /\ sender' = [sender EXCEPT ![c] = s]
  /\ steps' = [steps EXCEPT ![c] = <<"fetchConfig">>]
  /\ startTotal' = [startTotal EXCEPT ![c] =
        IF configAccount = None THEN 0 ELSE configAccount[1].totalTransfers]
  /\ UNCHANGED <<configAccount, transferRecords, config, error, transferRecord,
                 transaction>>
  /\ UNCHANGED notBuildVars

\* What fetchConfig returns once getAccountInfo has answered: null when the
\* account is not found, and null as well when the request failed (the catch).
fetchConfig(requestFailed) ==
  IF requestFailed THEN None ELSE configAccount

\* Faulty variant: the paused flag of the fetched config is not looked at.
AfterFetchConfigIgnoringPaused(c, fetched) ==
  /\ config' = [config EXCEPT ![c] = fetched]
  /\ IF fetched = None
       THEN /\ Throw(c, ERR_NOT_INITIALIZED)
            /\ UNCHANGED steps
       ELSE /\ pc' = [pc EXCEPT ![c] = "generateEphemeralKeyPair"]
            /\ steps' = [steps EXCEPT ![c] =
                  @ \o <<"checkNotPaused", "generateEphemeralKeyPair">>]
            /\ UNCHANGED error

\* The code after `await this.fetchConfig()` up to the next await.
AfterFetchConfig(c, fetched) ==
  /\ config' = [config EXCEPT ![c] = fetched]
  /\ IF fetched = None
       THEN /\ Throw(c, ERR_NOT_INITIALIZED)
            /\ UNCHANGED steps
       ELSE IF fetched[1].paused
         THEN /\ Throw(c, ERR_PAUSED)
              /\ steps' = [steps EXCEPT ![c] = Append(@, "checkNotPaused")]
         ELSE /\ pc' = [pc EXCEPT ![c] = "generateEphemeralKeyPair"]
              /\ steps' = [steps EXCEPT ![c] =
                    @ \o <<"checkNotPaused", "generateEphemeralKeyPair">>]
              /\ UNCHANGED error

FetchConfigReturn(c) ==
  /\ pc[c] = "fetchConfig"
  /\ \E requestFailed \in BOOLEAN : AfterFetchConfig(c, fetchConfig(requestFailed))
  /\ UNCHANGED <<configAccount, transferRecords, sender, transferRecord,
                 transaction, startTotal>>
  /\ UNCHANGED notBuildVars

\* Faulty variant: the commitment is created before the shared secret is derived.
AfterEphemeralKeyPairReordered(c) ==
  /\ pc' = [pc EXCEPT ![c] = "createCommitment"]
  /\ steps' = [steps EXCEPT ![c] = @ \o <<"createCommitment", "deriveSharedSecret">>]

\* generateEphemeralKeyPair resolved: deriveSharedSecret (synchronous), then
\* createCommitment is awaited.
AfterEphemeralKeyPair(c) ==
  /\ pc' = [pc EXCEPT ![c] = "createCommitment"]
  /\ steps' = [steps EXCEPT ![c] = @ \o <<"deriveSharedSecret", "createCommitment">>]

EphemeralKeyPairReturn(c) ==
  /\ pc[c] = "generateEphemeralKeyPair"
  /\ AfterEphemeralKeyPair(c)
  /\ UNCHANGED <<configAccount, transferRecords, sender, config, error,
                 transferRecord, transaction, startTotal>>
  /\ UNCHANGED notBuildVars

\* createCommitment resolved: encryptAmount is awaited.
CommitmentReturn(c) ==
  /\ pc[c] = "createCommitment"
  /\ pc' = [pc EXCEPT ![c] = "encryptAmount"]
  /\ steps' = [steps EXCEPT ![c] = Append(@, "encryptAmount")]
  /\ UNCHANGED <<configAccount, transferRecords, sender, config, error,
                 transferRecord, transaction, startTotal>>
  /\ UNCHANGED notBuildVars

\* encryptAmount resolved: computeViewingKeyHash (synchronous), then
\* generateMockProof is awaited.
EncryptAmountReturn(c) ==
  /\ pc[c] = "encryptAmount"
  /\ pc' = [pc EXCEPT ![c] = "generateMockProof"]
  /\ steps' = [steps EXCEPT ![c] = @ \o <<"computeViewingKeyHash", "generateMockProof">>]
  /\ UNCHANGED <<configAccount, transferRecords, sender, config, error,
                 transferRecord, transaction, startTotal>>
  /\ UNCHANGED notBuildVars

\* Faulty variant: the config of the first call to have fetched one is kept and reused.
NonceOfCachedConfig(c) ==
  IF config[1] # None THEN config[1][1].totalTransfers
                      ELSE config[c][1].totalTransfers

\* Faulty variant: a seed of the call's own is mixed into the nonce.
NonceOfWithCallSeed(c) == config[c][1].totalTransfers * (NumCalls + 1) + c

\* The totalTransfers the transfer-record address is derived from:
\* `config.totalTransfers`, the local of this call.
NonceOf(c) == config[c][1].totalTransfers

\* generateMockProof resolved: the PDAs are derived, the instruction data is
\* encoded, the transaction is built and getLatestBlockhash is awaited.
MockProofReturn(c) ==
  /\ pc[c] = "generateMockProof"
  /\ pc' = [pc EXCEPT ![c] = "getLatestBlockhash"]
  /\ transferRecord' = [transferRecord EXCEPT ![c] =
        Some(getTransferRecordPda(sender[c], NonceOf(c), SIP_PRIVACY_PROGRAM_ID))]
  /\ steps' = [steps EXCEPT ![c] =
        @ \o <<"getTransferRecordPda", "encodeShieldedTransferData", "getLatestBlockhash">>]
  /\ UNCHANGED <<configAccount, transferRecords, sender, config, error,
                 transaction, startTotal>>
  /\ UNCHANGED notBuildVars

\* getLatestBlockhash answered: the call returns the transaction, or the
\* request failed and the call rejects with the connection's error.
BlockhashReturn(c) ==
  /\ pc[c] = "getLatestBlockhash"
  /\ \E requestFailed \in BOOLEAN :
       IF requestFailed
         THEN /\ Throw(c, "Network error")
              /\ UNCHANGED transaction
         ELSE /\ pc' = [pc EXCEPT ![c] = "returned"]
              /\ transaction' = [transaction EXCEPT ![c] =
                    Some([feePayer |-> sender[c],
                          transferRecord |-> transferRecord[c][1]])]
              /\ UNCHANGED error
  /\ UNCHANGED <<configAccount, transferRecords, sender, config, steps,
                 transferRecord, startTotal>>
  /\ UNCHANGED notBuildVars

\* The caller signs the returned transaction with the sender's wallet.
SignTransaction(c) ==
  /\ pc[c] = "returned"
  /\ transaction[c] # None
  /\ pc' = [pc EXCEPT ![c] = "signed"]
  /\ steps' = [steps EXCEPT ![c] = Append(@, "sign")]
  /\ UNCHANGED <<configAccount, transferRecords, sender, config, error,
                 transferRecord, transaction, startTotal>>
  /\ UNCHANGED notBuildVars

\* The shielded_transfer instruction is refused when the program is not
\* initialized or paused, or when the transfer record's address is in use.
ProgramAccepts(tx) ==
  /\ configAccount # None
  /\ ~configAccount[1].paused
  /\ tx.transferRecord \notin transferRecords

\* sendTransaction: the signed transaction is submitted and confirmed.  The
\* program creates the transfer record and increments totalTransfers.
SendTransaction(c) ==
  /\ pc[c] = "signed"
  /\ steps' = [steps EXCEPT ![c] = Append(@, "sendTransaction")]
  /\ IF ~ProgramAccepts(transaction[c][1])
       THEN /\ pc' = [pc EXCEPT ![c] = "sendFailed"]
            /\ UNCHANGED <<configAccount, transferRecords>>
       ELSE /\ pc' = [pc EXCEPT ![c] = "confirmed"]
            /\ transferRecords' = transferRecords \cup {transaction[c][1].transferRecord}
            /\ configAccount' = Some([configAccount[1] EXCEPT
                                        !.totalTransfers = @ + 1])
  /\ UNCHANGED <<sender, config, error, transferRecord, transaction, startTotal>>
  /\ UNCHANGED notBuildVars

\* The `initialize` instruction creates the config account.
Initialize ==
  /\ configAccount = None
  /\ configAccount' = Some([paused |-> FALSE, totalTransfers |-> 0])
  /\ UNCHANGED <<transferRecords, pc, sender, config, steps, error,
                 transferRecord, transaction, startTotal>>
  /\ UNCHANGED notBuildVars

\* The authority pauses or unpauses the program.
SetPaused(p) ==
  /\ configAccount # None
  /\ configAccount[1].paused # p
  /\ configAccount' = Some([configAccount[1] EXCEPT !.paused = p])
  /\ UNCHANGED <<transferRecords, pc, sender, config, steps, error,
                 transferRecord, transaction, startTotal>>
  /\ UNCHANGED notBuildVars

BuildInit ==
  /\ configAccount = None
  /\ transferRecords = {}
  /\ pc = [c \in Calls |-> "idle"]
  /\ sender = [c \in Calls |-> "alice"]
  /\ config = [c \in Calls |-> None]
  /\ steps = [c \in Calls |-> <<>>]
  /\ error = [c \in Calls |-> ""]
  /\ transferRecord = [c \in Calls |-> None]
  /\ transaction = [c \in Calls |-> None]
  /\ startTotal = [c \in Calls |-> 0]

BuildNext ==
  \/ \E c \in Calls, s \in Senders : BuildStart(c, s)
  \/ \E c \in Calls : FetchConfigReturn(c)
  \/ \E c \in Calls : EphemeralKeyPairReturn(c)
  \/ \E c \in Calls : CommitmentReturn(c)
  \/ \E c \in Calls : EncryptAmountReturn(c)
  \/ \E c \in Calls : MockProofReturn(c)
  \/ \E c \in Calls : BlockhashReturn(c)
  \/ \E c \in Calls : SignTransaction(c)
  \/ \E c \in Calls : SendTransaction(c)
  \/ Initialize
  \/ \E p \in BOOLEAN : SetPaused(p)

(***************************************************************************)
(* Strings are sequences of one-character strings; numbers parsed from     *)
(* decimal strings are num / 10^scale, or NaN.                             *)
(***************************************************************************)
Rep(n, ch) == [i \in 1..n |-> ch]
Whitespace == {" "}
DigitChars == {"0", "1", "2", "3", "4", "5", "6", "7", "8", "9"}
DigitVal(ch) ==
  CASE ch = "0" -> 0 [] ch = "1" -> 1 [] ch = "2" -> 2 [] ch = "3" -> 3
    [] ch = "4" -> 4 [] ch = "5" -> 5 [] ch = "6" -> 6 [] ch = "7" -> 7
    [] ch = "8" -> 8 [] ch = "9" -> 9

StartsWith(str, prefix) ==
  Len(str) >= Len(prefix) /\ SubSeq(str, 1, Len(prefix)) = prefix

\* str.trim() === ""
TrimIsEmpty(str) == \A i \in 1..Len(str) : str[i] \in Whitespace

RECURSIVE Pow10(_)
Pow10(n) == IF n = 0 THEN 1 ELSE 10 * Pow10(n - 1)

Num(n, sc) == [nan |-> FALSE, num |-> n, scale |-> sc]
NaN == [nan |-> TRUE, num |-> 0, scale |-> 0]
isNaN(x) == x.nan
\* Comparisons of numbers; every comparison with NaN is false.
Lt(x, y) == ~x.nan /\ ~y.nan /\ x.num * Pow10(y.scale) < y.num * Pow10(x.scale)
Le(x, y) == ~x.nan /\ ~y.nan /\ x.num * Pow10(y.scale) <= y.num * Pow10(x.scale)
Gt(x, y) == Lt(y, x)

RECURSIVE SkipWhitespace(_, _)
SkipWhitespace(str, i) ==
  IF i <= Len(str) /\ str[i] \in Whitespace THEN SkipWhitespace(str, i + 1) ELSE i

\* The index after the longest run of digits that starts at i.
RECURSIVE DigitsEnd(_, _)
DigitsEnd(str, i) ==
  IF i <= Len(str) /\ str[i] \in DigitChars THEN DigitsEnd(str, i + 1) ELSE i

\* The value of the digits str[i..j-1].
RECURSIVE DigitsValue(_, _, _)
DigitsValue(str, i, j) ==
  IF j <= i THEN 0 ELSE 10 * DigitsValue(str, i, j - 1) + DigitVal(str[j - 1])

\* parseFloat on a decimal string: leading whitespace and a sign are accepted,
\* then digits with an optional fraction; what follows is ignored; NaN when
\* there is no digit.
parseFloat(str) ==
  LET w == SkipWhitespace(str, 1)
      neg == w <= Len(str) /\ str[w] = "-"
      i0 == IF w <= Len(str) /\ str[w] \in {"-", "+"} THEN w + 1 ELSE w
      a == DigitsEnd(str, i0)
      hasDot == a <= Len(str) /\ str[a] = "."
      b == IF hasDot THEN DigitsEnd(str, a + 1) ELSE a
      fracLen == IF hasDot THEN b - (a + 1) ELSE 0
      mag == DigitsValue(str, i0, a) * Pow10(fracLen)
               + (IF hasDot THEN DigitsValue(str, a + 1, b) ELSE 0)
  IN IF (a - i0) + fracLen = 0 THEN NaN
     ELSE Num(IF neg THEN 0 - mag ELSE mag, fracLen)

(***************************************************************************)
(* executeSendFlow                                                         *)
(***************************************************************************)
Base58Chars ==
  { "1", "2", "3", "4", "5", "6", "7", "8", "9",
    "A", "B", "C", "D", "E", "F", "G", "H", "J", "K", "L", "M", "N", "P", "Q",
    "R", "S", "T", "U", "V", "W", "X", "Y", "Z",
    "a", "b", "c", "d", "e", "f", "g", "h", "i", "j", "k", "m", "n", "o", "p",
    "q", "r", "s", "t", "u", "v", "w", "x", "y", "z" }

\* /^[1-9A-HJ-NP-Za-km-z]{32,44}$/.test(str)
solanaAddressRegex(str) ==
  /\ Len(str) >= 32
  /\ Len(str) <= 44
  /\ \A i \in 1..Len(str) : str[i] \in Base58Chars

STEALTH_PREFIX == <<"s", "i", "p", ":">>
MIN_AMOUNT == Num(1, 3)    \* 0.001
ZERO == Num(0, 0)

ERR_RECIPIENT_REQUIRED == "Recipient address is required"
ERR_INVALID_RECIPIENT == "Invalid recipient address"
ERR_INVALID_AMOUNT == "Invalid amount"
ERR_INSUFFICIENT == "Insufficient balance"
ERR_MINIMUM == "Minimum amount is 0.001 SOL"
ERR_SIGNING_REJECTED == "Transaction signing rejected"

Failure(msg) == Some([success |-> FALSE, txHash |-> "", error |-> msg])
Success(hash) == Some([success |-> TRUE, txHash |-> hash, error |-> ""])

\* Faulty variant: the minimum-amount check is missing.
SendInputErrorWithoutMinimum(params, balance) ==
  LET amount == parseFloat(params.amount)
  IN IF Len(params.recipient) = 0 \/ TrimIsEmpty(params.recipient)
       THEN ERR_RECIPIENT_REQUIRED
     ELSE IF ~StartsWith(params.recipient, STEALTH_PREFIX)
             /\ ~solanaAddressRegex(params.recipient)
       THEN ERR_INVALID_RECIPIENT
     ELSE IF isNaN(amount) \/ Le(amount, ZERO) THEN ERR_INVALID_AMOUNT
     ELSE IF Gt(amount, balance) THEN ERR_INSUFFICIENT
     ELSE ""

\* Steps 1 and 2 of executeSendFlow: the error the validation ends with, ""
\* when the request passes.
SendInputError(params, balance) ==
  LET amount == parseFloat(params.amount)
  IN IF Len(params.recipient) = 0 \/ TrimIsEmpty(params.recipient)
       THEN ERR_RECIPIENT_REQUIRED
     ELSE IF ~StartsWith(params.recipient, STEALTH_PREFIX)
             /\ ~solanaAddressRegex(params.recipient)
       THEN ERR_INVALID_RECIPIENT
     ELSE IF isNaN(amount) \/ Le(amount, ZERO) THEN ERR_INVALID_AMOUNT
     ELSE IF Gt(amount, balance) THEN ERR_INSUFFICIENT
     ELSE IF Lt(amount, MIN_AMOUNT) THEN ERR_MINIMUM
     ELSE ""

\* useSend.validateAmount: the error of the amount, "" when it is valid.
validateAmount(amount, balance) ==
  LET numAmount == parseFloat(amount)
  IN IF Len(amount) = 0 \/ TrimIsEmpty(amount) THEN "Amount is required"
     ELSE IF isNaN(numAmount) THEN "Invalid amount"
     ELSE IF Le(numAmount, ZERO) THEN "Amount must be greater than 0"
     ELSE IF Gt(numAmount, balance) THEN "Insufficient balance"
     ELSE IF Lt(numAmount, MIN_AMOUNT) THEN "Minimum amount is 0.001 SOL"
     ELSE ""

SendReturn(status, result) ==
  /\ sendPc' = "done"
  /\ sendStatus' = status
  /\ sendResult' = result

\* executeSendFlow is called: validation, then the transaction is built and
\* signTransaction is awaited.
SendFlowStart(params, balance) ==
  /\ sendPc = "idle"
  /\ sendParams' = Some(params)
  /\ sendBalance' = balance
  /\ signedTx' = None
  /\ rpcCalls' = <<>>
  /\ LET err == SendInputError(params, balance)
     IN IF err # ""
          THEN /\ SendReturn("error", Failure(err))
               /\ signCalls' = 0
          ELSE /\ sendPc' = "signTransaction"
               /\ signCalls' = 1
               /\ sendStatus' = "idle"
               /\ sendResult' = None
  /\ UNCHANGED shouldFail
  /\ UNCHANGED notSendVars

\* Faulty variant: the signer's answer is not checked before submission.
AfterSignUnchecked(signed) ==
  /\ signedTx' = signed
  /\ sendPc' = "sendTransaction"
  /\ rpcCalls' = Append(rpcCalls, "sendTransaction")
  /\ UNCHANGED <<sendStatus, sendResult>>

\* The code after `await signTransaction(txBytes)` up to the next await.
AfterSign(signed) ==
  /\ signedTx' = signed
  /\ IF signed = None
       THEN /\ SendReturn("error", Failure(ERR_SIGNING_REJECTED))
            /\ UNCHANGED rpcCalls
       ELSE /\ sendPc' = "sendTransaction"
            /\ rpcCalls' = Append(rpcCalls, "sendTransaction")
            /\ UNCHANGED <<sendStatus, sendResult>>

SignReturn ==
  /\ sendPc = "signTransaction"
  /\ \E signed \in {None, Some("signedTx")} : AfterSign(signed)
  /\ UNCHANGED <<sendParams, sendBalance, signCalls, shouldFail>>
  /\ UNCHANGED notSendVars

\* mockRpc.sendTransaction answered: checkFailure throws when shouldFail (the
\* flow's catch returns the message), else confirmTransaction is awaited.
SendTxReturn ==
  /\ sendPc = "sendTransaction"
  /\ IF shouldFail
       THEN /\ SendReturn("error", Failure("Network error"))
            /\ UNCHANGED rpcCalls
       ELSE /\ sendPc' = "confirmTransaction"
            /\ rpcCalls' = Append(rpcCalls, "confirmTransaction")
            /\ UNCHANGED <<sendStatus, sendResult>>
  /\ UNCHANGED <<sendParams, sendBalance, signCalls, signedTx, shouldFail>>
  /\ UNCHANGED notSendVars

\* mockRpc.confirmTransaction answered: checkFailure may throw; otherwise
\* value.err is null and the flow returns "confirmed".
ConfirmTxReturn ==
  /\ sendPc = "confirmTransaction"
  /\ IF shouldFail
       THEN SendReturn("error", Failure("Network error"))
       ELSE SendReturn("confirmed", Success("signature"))
  /\ UNCHANGED <<sendParams, sendBalance, signCalls, signedTx, rpcCalls, shouldFail>>
  /\ UNCHANGED notSendVars

\* mockRpc.setFailure(flag, "Network error")
SetFailure(flag) ==
  /\ shouldFail # flag
  /\ shouldFail' = flag
  /\ UNCHANGED <<sendPc, sendParams, sendBalance, sendStatus, sendResult,
                 signCalls, signedTx, rpcCalls>>
  /\ UNCHANGED notSendVars

\* The requests the flow is run on.
SendRequests ==
  [recipient :
  { <<>>,
    <<" ", " ">>,
    <<"i", "n", "v", "a", "l", "i", "d">>,
    Rep(32, "1"),
    Rep(44, "z"),
    Rep(31, "1"),
    Rep(45, "1"),
    Rep(32, "0"),
    STEALTH_PREFIX \o <<"s", "o", "l", "a", "n", "a", ":", "0", "x", "1", ":", "0", "x", "2">>,
    <<" ">> \o Rep(32, "1") },
   amount :
  { <<>>,
    <<"a", "b", "c">>,
    <<"0">>,
    <<"-", "1">>,
    <<"0", ".", "0", "0", "0", "1">>,
    <<"0", ".", "0", "0", "0", "9", "9">>,
    <<".", "0", "0", "0", "5">>,
    <<"0", ".", "0", "0", "1">>,
    <<"0", ".", "0", "0", "1", "0">>,
    <<"1">>,
    <<"1", "0">>,
    <<"1", "5">>,
    <<"1", "S", "O", "L">> }]

SendNext ==
  \/ \E params \in SendRequests, b \in {Num(0, 0), Num(10, 0), Num(5, 4)} :
       SendFlowStart(params, b)
  \/ SignReturn
  \/ SendTxReturn
  \/ ConfirmTxReturn
  \/ \E flag \in BOOLEAN : SetFailure(flag)

(***************************************************************************)
(* executeClaimFlow, executeMultiClaimFlow, canClaim                       *)
(***************************************************************************)
ERR_NO_PAYMENT == "No payment to claim"
ERR_ALREADY_CLAIMED == "Payment already claimed"
ERR_NOT_RECEIVED == "Can only claim received payments"
ERR_NOT_COMPLETED == "Payment not yet completed"
ERR_NO_KEYS == "Stealth keys not found"
ERR_STEALTH_FORMAT == "Invalid stealth address format"

\* useClaim's canClaim
canClaim(paymentStatus, claimed) == paymentStatus = "completed" /\ ~claimed

\* Faulty variant: the claimed flag of the payment is not looked at.
ClaimInputErrorIgnoringClaimed(payment, keys) ==
  IF payment = None THEN ERR_NO_PAYMENT
  ELSE IF payment[1].type # "receive" THEN ERR_NOT_RECEIVED
  ELSE IF payment[1].status # "completed" THEN ERR_NOT_COMPLETED
  ELSE IF ~keys THEN ERR_NO_KEYS
  ELSE IF \/ payment[1].stealthAddress = None
          \/ ~StartsWith(payment[1].stealthAddress[1], STEALTH_PREFIX)
    THEN ERR_STEALTH_FORMAT
  ELSE ""

\* Steps 1 to 3 of executeClaimFlow: the error the validation ends with, ""
\* when the payment passes.
ClaimInputError(payment, keys) ==
  IF payment = None THEN ERR_NO_PAYMENT
  ELSE IF payment[1].claimed THEN ERR_ALREADY_CLAIMED
  ELSE IF payment[1].type # "receive" THEN ERR_NOT_RECEIVED
  ELSE IF payment[1].status # "completed" THEN ERR_NOT_COMPLETED
  ELSE IF ~keys THEN ERR_NO_KEYS
  ELSE IF \/ payment[1].stealthAddress = None
          \/ ~StartsWith(payment[1].stealthAddress[1], STEALTH_PREFIX)
    THEN ERR_STEALTH_FORMAT
  ELSE ""

ClaimResult(ok, hash, msg, rpc) ==
  [success |-> ok, txHash |-> hash, error |-> msg, rpc |-> rpc]

\* executeClaimFlow has returned {status, result}: the caller records the
\* result; executeMultiClaimFlow waits 50 ms after a success, then goes on.
ClaimFlowReturns(status, result) ==
  /\ claimStatus' = status
  /\ claimResults' = Append(claimResults, result)
  /\ IF claimMode = "single"
       THEN claimPc' = "done" /\ UNCHANGED claimIndex
       ELSE IF result.success
         THEN claimPc' = "delay" /\ UNCHANGED claimIndex
         ELSE claimPc' = "loop" /\ claimIndex' = claimIndex + 1

\* executeClaimFlow(payment, keys, destinationAddress) is called.
ClaimStart(payment, keys) ==
  /\ claimPc = "idle"
  /\ claimMode' = "single"
  /\ claimPayments' = <<payment>>
  /\ claimIndex' = 1
  /\ claimKeys' = keys
  /\ claimPc' = "loop"
  /\ UNCHANGED <<claimStatus, claimResults, claimFlowRpc, claimShouldFail,
                 claimedCount>>
  /\ UNCHANGED notClaimVars

\* executeMultiClaimFlow(payments, keys, destinationAddress) is called.
MultiClaimStart(payments, keys) ==
  /\ claimPc = "idle"
  /\ claimMode' = "multi"
  /\ claimPayments' = payments
  /\ claimIndex' = 1
  /\ claimKeys' = keys
  /\ claimPc' = "loop"
  /\ UNCHANGED <<claimStatus, claimResults, claimFlowRpc, claimShouldFail,
                 claimedCount>>
  /\ UNCHANGED notClaimVars

\* One executeClaimFlow up to its first await: the validation, then the claim
\* transaction is built and mockRpc.sendTransaction is awaited.  After the
\* last payment executeMultiClaimFlow returns `results`.
ClaimFlowCall ==
  /\ claimPc = "loop"
  /\ IF claimIndex > Len(claimPayments)
       THEN /\ claimPc' = "done"
            /\ UNCHANGED <<claimIndex, claimStatus, claimResults, claimFlowRpc>>
       ELSE LET err == ClaimInputError(claimPayments[claimIndex], claimKeys)
            IN IF err # ""
                 THEN /\ ClaimFlowReturns("error", ClaimResult(FALSE, "", err, 0))
                      /\ claimFlowRpc' = 0
                 ELSE /\ claimPc' = "sendTransaction"
                      /\ claimFlowRpc' = 1
                      /\ UNCHANGED <<claimIndex, claimStatus, claimResults>>
  /\ UNCHANGED <<claimMode, claimPayments, claimKeys, claimShouldFail, claimedCount>>
  /\ UNCHANGED notClaimVars

\* mockRpc.sendTransaction answered: it threw (shouldFail), or
\* mockRpc.confirmTransaction is awaited.
ClaimSendTxReturn ==
  /\ claimPc = "sendTransaction"
  /\ IF claimShouldFail
       THEN /\ ClaimFlowReturns("error",
                 ClaimResult(FALSE, "", "Network error", claimFlowRpc))
            /\ UNCHANGED claimFlowRpc
       ELSE /\ claimPc' = "confirmTransaction"
            /\ claimFlowRpc' = claimFlowRpc + 1
            /\ UNCHANGED <<claimIndex, claimStatus, claimResults>>
  /\ UNCHANGED <<claimMode, claimPayments, claimKeys, claimShouldFail, claimedCount>>
  /\ UNCHANGED notClaimVars

\* mockRpc.confirmTransaction answered: it threw (shouldFail), or value.err is
\* null and the claim is confirmed.
ClaimConfirmTxReturn ==
  /\ claimPc = "confirmTransaction"
  /\ IF claimShouldFail
       THEN /\ ClaimFlowReturns("error",
                 ClaimResult(FALSE, "", "Network error", claimFlowRpc))
            /\ UNCHANGED claimedCount
       ELSE /\ ClaimFlowReturns("confirmed",
                 ClaimResult(TRUE, "signature", "", claimFlowRpc))
            /\ claimedCount' = [claimedCount EXCEPT
                 ![claimPayments[claimIndex][1].id] = @ + 1]
  /\ UNCHANGED <<claimMode, claimPayments, claimKeys, claimFlowRpc, claimShouldFail>>
  /\ UNCHANGED notClaimVars

\* The 50 ms pause after a successful claim is over.
ClaimDelayDone ==
  /\ claimPc = "delay"
  /\ claimPc' = "loop"
  /\ claimIndex' = claimIndex + 1
  /\ UNCHANGED <<claimMode, claimPayments, claimKeys, claimStatus, claimResults,
                 claimFlowRpc, claimShouldFail, claimedCount>>
  /\ UNCHANGED notClaimVars

\* mockRpc.setFailure(flag, "Network error")
ClaimSetFailure(flag) ==
  /\ claimShouldFail # flag
  /\ claimShouldFail' = flag
  /\ UNCHANGED <<claimPc, claimMode, claimPayments, claimIndex, claimKeys,
                 claimStatus, claimResults, claimFlowRpc, claimedCount>>
  /\ UNCHANGED notClaimVars

PaymentIds == {"payment_1", "payment_2"}
SIP_ADDRESS == Some(STEALTH_PREFIX \o <<"s", "o", "l", "a", "n", "a", ":", "0", "x", "1", ":", "0", "x", "2">>)
Payment(id, type, status, address, claimed) ==
  Some([id |-> id, type |-> type, status |-> status, stealthAddress |-> address,
        claimed |-> claimed])

\* The payment records the flows are run on.
PaymentPool ==
  { None,
    Payment("payment_1", "receive", "completed", SIP_ADDRESS, FALSE),
    Payment("payment_2", "receive", "completed", SIP_ADDRESS, FALSE),
    Payment("payment_1", "receive", "completed", SIP_ADDRESS, TRUE),
    Payment("payment_2", "receive", "claimed", SIP_ADDRESS, TRUE),
    Payment("payment_1", "send", "completed", None, FALSE),
    Payment("payment_2", "receive", "pending", SIP_ADDRESS, FALSE),
    Payment("payment_1", "receive", "completed", Some(<<"i", "n", "v", "a", "l", "i", "d">>), FALSE),
    Payment("payment_2", "receive", "completed", None, FALSE) }

RECURSIVE SeqsUpTo(_, _)
SeqsUpTo(S, n) ==
  IF n = 0 THEN {<<>>}
  ELSE LET shorter == SeqsUpTo(S, n - 1)
       IN shorter \cup {Append(q, x) : q \in shorter, x \in S}

ClaimNext ==
  \/ \E payment \in PaymentPool, keys \in BOOLEAN : ClaimStart(payment, keys)
  \/ \E payments \in SeqsUpTo(PaymentPool \ {None}, MaxBatch), keys \in BOOLEAN :
       MultiClaimStart(payments, keys)
  \/ ClaimFlowCall
  \/ ClaimSendTxReturn
  \/ ClaimConfirmTxReturn
  \/ ClaimDelayDone
  \/ \E flag \in BOOLEAN : ClaimSetFailure(flag)

(***************************************************************************)
(* executeScanFlow                                                         *)
(*                                                                         *)
(* An announcement is [txHash, isOurs, timestamp]; the transaction hash of *)
(* generateMockAnnouncement(index) is written as its index.                *)
(***************************************************************************)
BATCH_SIZE == 50
DEFAULT_LIMIT == 100
OUR_PAYMENT_INDICES == {2, 7, 15, 42}
ERR_NO_STEALTH_KEYS == "No stealth keys found"

Announcement(txHash, isOurs, timestamp) ==
  [txHash |-> txHash, isOurs |-> isOurs, timestamp |-> timestamp]

\* generateMockAnnouncements(count, ourPaymentIndices); index i of the array
\* is position i + 1 of the sequence.
generateMockAnnouncements(count, ourPaymentIndices) ==
  [k \in 1..count |-> Announcement(k - 1, (k - 1) \in ourPaymentIndices, 2)]

\* announcements.filter(a => a.timestamp > fromTimestamp), order kept
FilterNewer(anns, from) ==
  LET Newer(a) == a.timestamp > from
  IN SelectSeq(anns, Newer)

\* `filteredAnnouncements`: a fromTimestamp of 0 or undefined is falsy and
\* filters nothing.
filteredAnnouncements(anns, from) ==
  IF from # 0 THEN FilterNewer(anns, from) ELSE anns

\* The payment record built for an owned announcement.
PaymentOf(a) ==
  [type |-> "receive", status |-> "completed", txHash |-> a.txHash,
   timestamp |-> a.timestamp, claimed |-> FALSE]

\* Faulty variant: announcements whose txHash is already known are not skipped.
ProducesPaymentWithoutSkip(a, existing) == a.isOurs

\* Faulty variant: the ownership check is not made.
ProducesPaymentWithoutOwnership(a, existing) == a.txHash \notin existing

\* The two tests of the inner loop: an announcement already known is skipped,
\* and of the others the owned ones produce a payment.
ProducesPayment(a, existing) ==
  IF a.txHash \in existing THEN FALSE ELSE a.isOurs

\* The inner loop over one batch: every announcement is counted as scanned,
\* and those that produce a payment are counted as found and their payments
\* pushed in order.
ScanBatch(result, batch, existing) ==
  LET Produces(a) == ProducesPayment(a, existing)
      owned == SelectSeq(batch, Produces)
  IN [result EXCEPT
        !.scanned = @ + Len(batch),
        !.found = @ + Len(owned),
        !.newPayments = @ \o [k \in 1..Len(owned) |-> PaymentOf(owned[k])]]

Min(a, b) == IF a < b THEN a ELSE b

\* Faulty variant: the slice stops one announcement early.
SliceOneShort(anns, i) == SubSeq(anns, i + 1, Min(i + BATCH_SIZE - 1, Len(anns)))

\* filteredAnnouncements.slice(i, i + BATCH_SIZE), i 0-based
Slice(anns, i) == SubSeq(anns, i + 1, Min(i + BATCH_SIZE, Len(anns)))

EmptyScanResult == [found |-> 0, scanned |-> 0, newPayments |-> <<>>, errors |-> <<>>]

\* executeScanFlow up to its first await: keys are validated, the
\* announcements fetched and filtered, and the first batch is scanned.
ScanCall(keys, existing, mockAnnouncements, limit, from) ==
  LET anns == IF mockAnnouncements # None THEN mockAnnouncements[1]
              ELSE generateMockAnnouncements(
                     IF limit # 0 THEN limit ELSE DEFAULT_LIMIT,
                     OUR_PAYMENT_INDICES)
      filtered == filteredAnnouncements(anns, from)
  IN /\ scanKeys' = keys
     /\ scanCancelAt' = -1
     /\ scanBatchSizes' = IF keys /\ Len(filtered) > 0
                            THEN <<Len(Slice(filtered, 0))>> ELSE <<>>
     /\ existingTxHashes' = existing
     /\ fromTimestamp' = from
     /\ scanIndex' = 0
     /\ IF ~keys
          THEN /\ scanPc' = "done"
               /\ scanStage' = "error"
               /\ announcements' = <<>>
               /\ scanResult' = [EmptyScanResult EXCEPT
                                   !.errors = <<ERR_NO_STEALTH_KEYS>>]
          ELSE /\ announcements' = anns
               /\ IF Len(filtered) = 0
                    THEN /\ scanPc' = "done"
                         /\ scanStage' = "complete"
                         /\ scanResult' = EmptyScanResult
                    ELSE /\ scanPc' = "delay"
                         /\ scanStage' = "scanning"
                         /\ scanResult' = ScanBatch(EmptyScanResult,
                                                    Slice(filtered, 0), existing)

TxHashes == {1, 2}
\* The announcements a caller may pass: any hash, owned or not, either time.
AnnouncementPool ==
  {Announcement(h, o, t) : h \in TxHashes, o \in BOOLEAN, t \in {1, 2}}

\* executeScanFlow(keys, existingTxHashes, options) is called, with
\* options.mockAnnouncements given or not.
ScanStart ==
  /\ scanPc = "idle"
  /\ \E keys \in BOOLEAN, existing \in SUBSET TxHashes, from \in {0, 1} :
       \/ \E anns \in SeqsUpTo(AnnouncementPool, MaxAnnouncements) :
            ScanCall(keys, existing, Some(anns), 0, from)
       \/ \E limit \in {0, 51} : ScanCall(keys, existing, None, limit, from)
  /\ scanRound' = 1
  /\ UNCHANGED scanFirstFound
  /\ UNCHANGED notScanVars

\* The 10 ms pause after a batch is over: the next batch is scanned, or the
\* flow returns.
ScanDelayDone ==
  /\ scanPc = "delay"
  /\ LET filtered == filteredAnnouncements(announcements, fromTimestamp)
         i == scanIndex + BATCH_SIZE
     IN /\ scanIndex' = i
        /\ IF i < Len(filtered)
             THEN /\ scanResult' = ScanBatch(scanResult, Slice(filtered, i),
                                             existingTxHashes)
                  /\ scanBatchSizes' = Append(scanBatchSizes,
                                              Len(Slice(filtered, i)))
                  /\ UNCHANGED <<scanPc, scanStage>>
             ELSE /\ scanPc' = "done"
                  /\ scanStage' = "complete"
                  /\ UNCHANGED <<scanResult, scanBatchSizes>>
  /\ scanFirstFound' = IF scanRound = 1 THEN scanResult'.found ELSE scanFirstFound
  /\ UNCHANGED <<announcements, existingTxHashes, fromTimestamp, scanKeys,
                 scanRound, scanCancelAt>>
  /\ UNCHANGED notScanVars

\* The caller wants the running scan to stop.  executeScanFlow takes no
\* cancellation signal, so the wish can only be recorded: it is made while the
\* flow is suspended between two batches, the one place other code runs.
RequestCancel ==
  /\ scanPc = "delay"
  /\ scanCancelAt = -1
  /\ scanCancelAt' = scanResult.scanned
  /\ UNCHANGED <<scanPc, announcements, existingTxHashes, fromTimestamp, scanKeys,
                 scanIndex, scanResult, scanStage, scanRound, scanFirstFound,
                 scanBatchSizes>>
  /\ UNCHANGED notScanVars

\* useScanPayments' getBatchCount: Math.ceil(total / BATCH_SIZE)
getBatchCount(total) == (total + BATCH_SIZE - 1) \div BATCH_SIZE

TxHashesOf(payments) == {payments[k].txHash : k \in 1..Len(payments)}

\* The caller adds the transaction hashes of the payments found to its known
\* set and runs executeScanFlow again over the same announcements.
ScanAgain ==
  /\ scanPc = "done"
  /\ scanStage = "complete"
  /\ scanRound = 1
  /\ ScanCall(scanKeys, existingTxHashes \cup TxHashesOf(scanResult.newPayments),
              Some(announcements), 0, fromTimestamp)
  /\ scanRound' = 2
  /\ UNCHANGED scanFirstFound
  /\ UNCHANGED notScanVars

ScanNext ==
  \/ ScanStart
  \/ ScanDelayDone
  \/ ScanAgain
  \/ RequestCancel

(***************************************************************************)
(* Stealth meta-addresses: formatStealthMetaAddress, parseStealthMetaAddress*)
(*                                                                         *)
(* A meta-address is [chain, spendingKey, viewingKey, label], the label    *)
(* optional (None when absent); strings are sequences of characters.       *)
(***************************************************************************)
SEPARATOR == ":"
HEX_PREFIX == <<"0", "x">>
SupportedChains ==
  { <<"s", "o", "l", "a", "n", "a">>,
    <<"e", "t", "h", "e", "r", "e", "u", "m">>,
    <<"n", "e", "a", "r">> }
HexChars == DigitChars \cup {"a", "b", "c", "d", "e", "f", "A", "B", "C", "D", "E", "F"}

\* str.split(":"): the parts between the separators, in order
Split(str) ==
  LET seps == {i \in 1..Len(str) : str[i] = SEPARATOR}
      Pos(k) == IF k = 0 THEN 0
                ELSE IF k = Cardinality(seps) + 1 THEN Len(str) + 1
                ELSE CHOOSE q \in seps : Cardinality({r \in seps : r < q}) = k - 1
  IN [k \in 1..(Cardinality(seps) + 1) |-> SubSeq(str, Pos(k - 1) + 1, Pos(k) - 1)]

\* useStealth's formatStealthAddress: `${STEALTH_PREFIX}${chain}:${spending}:${viewing}`
formatStealthAddress(chain, spendingPublicKey, viewingPublicKey) ==
  [full |-> STEALTH_PREFIX \o chain \o <<SEPARATOR>> \o spendingPublicKey
              \o <<SEPARATOR>> \o viewingPublicKey,
   chain |-> chain, spendingKey |-> spendingPublicKey,
   viewingKey |-> viewingPublicKey]

\* Faulty variant: the two keys are written in the other order.
formatStealthMetaAddressKeysSwapped(m) ==
  formatStealthAddress(m.chain, m.viewingKey, m.spendingKey).full

\* formatStealthMetaAddress(m): the label is not written.
formatStealthMetaAddress(m) ==
  formatStealthAddress(m.chain, m.spendingKey, m.viewingKey).full

\* parseStealthAddressString: null unless "sip:" is followed by exactly three
\* parts; the result has no label.
parseStealthAddressString(addressStr) ==
  IF ~StartsWith(addressStr, STEALTH_PREFIX) THEN None
  ELSE LET parts == Split(SubSeq(addressStr, Len(STEALTH_PREFIX) + 1, Len(addressStr)))
       IN IF Len(parts) # 3 THEN None
          ELSE Some([chain |-> parts[1], spendingKey |-> parts[2],
                     viewingKey |-> parts[3], label |-> None])

parseStealthMetaAddress(addressStr) == parseStealthAddressString(addressStr)

\* A hex key: "0x" followed by hex digits.
IsHexKey(key) ==
  /\ StartsWith(key, HEX_PREFIX)
  /\ \A i \in 3..Len(key) : key[i] \in HexChars

\* A valid meta-address: a supported chain and two hex keys.
IsValidMetaAddress(m) ==
  /\ m.chain \in SupportedChains
  /\ IsHexKey(m.spendingKey)
  /\ IsHexKey(m.viewingKey)

\* Faulty variant: the regular expression ends with * and matches no digit.
hexRegexTestAllowingEmpty(key) ==
  LET digits == IF StartsWith(key, HEX_PREFIX) THEN SubSeq(key, 3, Len(key)) ELSE key
  IN \A i \in 1..Len(digits) : digits[i] \in HexChars

\* /^(0x)?[0-9a-fA-F]+$/.test(key): one hex digit or more, after "0x" or not
hexRegexTest(key) ==
  \/ Len(key) >= 1 /\ \A i \in 1..Len(key) : key[i] \in HexChars
  \/ /\ StartsWith(key, HEX_PREFIX)
     /\ Len(key) >= 3
     /\ \A i \in 3..Len(key) : key[i] \in HexChars

\* useSend's validateStealthAddress(address)
validateStealthAddress(address) ==
  IF ~StartsWith(address, STEALTH_PREFIX)
    THEN [isValid |-> FALSE, type |-> "invalid", error |-> "Not a stealth address"]
  ELSE LET parts == Split(SubSeq(address, Len(STEALTH_PREFIX) + 1, Len(address)))
       IN IF Len(parts) # 3
            THEN [isValid |-> FALSE, type |-> "invalid",
                  error |-> "Invalid stealth address format"]
          ELSE IF parts[1] \notin SupportedChains
            THEN [isValid |-> FALSE, type |-> "invalid", error |-> "Unsupported chain"]
          ELSE IF ~hexRegexTest(parts[2]) \/ ~hexRegexTest(parts[3])
            THEN [isValid |-> FALSE, type |-> "invalid", error |-> "Invalid key format"]
          ELSE [isValid |-> TRUE, type |-> "stealth", chain |-> parts[1]]

\* validateStealthAddress is called on the string given or formatted.
ValidateString ==
  /\ \/ stealthPc = "start" /\ metaAddress = None
     \/ stealthPc = "formatted"
  /\ addressValidation' = Some(validateStealthAddress(stealthString))
  /\ stealthPc' = "validated"
  /\ UNCHANGED <<metaAddress, stealthString, stealthParsed>>
  /\ UNCHANGED notStealthVars

\* formatStealthMetaAddress(m) is called.
FormatMetaAddress ==
  /\ stealthPc = "start"
  /\ metaAddress # None
  /\ stealthString' = formatStealthMetaAddress(metaAddress[1])
  /\ stealthPc' = "formatted"
  /\ UNCHANGED <<metaAddress, stealthParsed, addressValidation>>
  /\ UNCHANGED notStealthVars

\* parseStealthMetaAddress is called on the formatted string.
ParseFormatted ==
  /\ stealthPc = "formatted"
  /\ stealthParsed' = parseStealthMetaAddress(stealthString)
  /\ stealthPc' = "parsed"
  /\ UNCHANGED <<metaAddress, stealthString, addressValidation>>
  /\ UNCHANGED notStealthVars

\* parseStealthMetaAddress is called on a string that was not formatted here.
ParseString ==
  /\ stealthPc = "start"
  /\ metaAddress = None
  /\ stealthParsed' = parseStealthMetaAddress(stealthString)
  /\ stealthPc' = "parsed"
  /\ UNCHANGED <<metaAddress, stealthString, addressValidation>>
  /\ UNCHANGED notStealthVars

StealthKeyStrings ==
  { HEX_PREFIX \o <<"1", "2", "3", "4">>,
    HEX_PREFIX \o <<"a", "b", "c", "d", "e", "f", "1", "2">>,
    HEX_PREFIX \o <<"5", "6", "7", "8">>,
    HEX_PREFIX,
    <<"1", "2", ":", "3", "4">> }
MetaAddresses ==
  [chain : SupportedChains \cup {<<"b", "t", "c">>},
   spendingKey : StealthKeyStrings, viewingKey : StealthKeyStrings,
   label : {None, Some(<<"M", "y", " ", "W", "a", "l", "l", "e", "t">>)}]
RawStealthStrings ==
  { <<>>,
    HEX_PREFIX \o <<"1", "2", "3", "4">>,
    <<"i", "n", "v", "a", "l", "i", "d", ":", "s", ":", "0", "x", "1", ":", "0", "x", "2">>,
    STEALTH_PREFIX,
    STEALTH_PREFIX \o <<"s", "o", "l", "a", "n", "a", ":", "0", "x", "1">>,
    STEALTH_PREFIX \o <<"s", "o", "l", "a", "n", "a", ":", "0", "x", "1", ":", "0", "x", "2">>,
    STEALTH_PREFIX \o <<"s", ":", "0", "x", "1", ":", "0", "x", "2", ":", "e", "x", "t", "r", "a">>,
    STEALTH_PREFIX \o <<"n", "e", "a", "r", ":", "A", "b", "9", ":", "0", "x", "F", "0">>,
    STEALTH_PREFIX \o <<"n", "e", "a", "r", ":", ":", "0", "x", "2">>,
    STEALTH_PREFIX \o <<"n", "e", "a", "r", ":", "0", "X", "1", ":", "0", "x", "2">>,
    STEALTH_PREFIX \o <<"n", "e", "a", "r", ":", "0", "x", "1", ":", "0", "x", "g">>,
    STEALTH_PREFIX \o <<"N", "e", "a", "r", ":", "0", "x", "1", ":", "0", "x", "2">>,
    <<"S", "I", "P", ":", "n", "e", "a", "r", ":", "0", "x", "1", ":", "0", "x", "2">>,
    <<" ">> \o STEALTH_PREFIX \o <<"n", "e", "a", "r", ":", "0", "x", "1", ":", "0", "x", "2">> }

StealthNext ==
  \/ FormatMetaAddress
  \/ ParseFormatted
  \/ ParseString
  \/ ValidateString

(***************************************************************************)
(* encodeShieldedTransferData                                              *)
(*                                                                         *)
(* A Buffer is a sequence of bytes (0..255).  A bigint is [neg, limbs]:    *)
(* its magnitude in base 65536, least significant limb first and without   *)
(* leading zero limbs, so that 64-bit values keep their width.             *)
(***************************************************************************)
LIMB == 65536
U64_LIMBS == 4
DISCRIMINATOR == <<95, 128, 169, 46, 75, 93, 118, 152>>
COMMITMENT_LEN == 33
PUBKEY_LEN == 32
EPHEMERAL_LEN == 33
HASH_LEN == 32
RANGE_ERROR == "RangeError"

BigInt(neg, limbs) == [neg |-> neg, limbs |-> limbs]

\* The bigint of a number below 2^31.
BigIntOf(n) ==
  IF n < 0 THEN BigInt(TRUE, IF -n < LIMB THEN <<-n>> ELSE <<(-n) % LIMB, (-n) \div LIMB>>)
  ELSE IF n = 0 THEN BigInt(FALSE, <<>>)
  ELSE IF n < LIMB THEN BigInt(FALSE, <<n>>)
  ELSE BigInt(FALSE, <<n % LIMB, n \div LIMB>>)

\* Buffer.alloc(size): zero-filled
Alloc(size) == [i \in 1..size |-> 0]

\* source.copy(buffer, offset): the bytes of source that fit are written from
\* offset on (offset 0-based).
CopyInto(buffer, source, offset) ==
  [i \in 1..Len(buffer) |->
     IF i > offset /\ i <= offset + Len(source) THEN source[i - offset]
     ELSE buffer[i]]

\* The four bytes of writeUInt32LE(n)
UInt32LE(n) ==
  <<n % 256, (n \div 256) % 256, (n \div 65536) % 256, (n \div 16777216) % 256>>

\* readUInt32LE at `offset`; -1 for a value of 2^31 or more
ReadUInt32LE(buffer, offset) ==
  IF buffer[offset + 4] >= 128 THEN -1
  ELSE buffer[offset + 1] + 256 * buffer[offset + 2] + 65536 * buffer[offset + 3]
         + 16777216 * buffer[offset + 4]

\* Faulty variant: the eight bytes most significant first.
BigUInt64BE(value) ==
  LET limb(k) == IF k <= Len(value.limbs) THEN value.limbs[k] ELSE 0
  IN [i \in 1..8 |-> IF i % 2 = 1 THEN limb(4 - (i \div 2)) \div 256
                     ELSE limb(5 - (i \div 2)) % 256]

\* The eight bytes of writeBigUInt64LE(value), value in 0..2^64-1
BigUInt64LE(value) ==
  LET limb(k) == IF k <= Len(value.limbs) THEN value.limbs[k] ELSE 0
  IN [i \in 1..8 |-> IF i % 2 = 1 THEN limb((i + 1) \div 2) % 256
                     ELSE limb(i \div 2) \div 256]

\* writeBigUInt64LE throws a RangeError for a value outside 0..2^64-1.
IsU64(value) == ~value.neg /\ Len(value.limbs) <= U64_LIMBS

\* readBigUInt64LE at `offset`
ReadBigUInt64LE(buffer, offset) ==
  LET limbs == [k \in 1..U64_LIMBS |->
                  buffer[offset + 2 * k - 1] + 256 * buffer[offset + 2 * k]]
      used == {k \in 1..U64_LIMBS : limbs[k] # 0}
      top == IF used = {} THEN 0 ELSE CHOOSE k \in used : \A j \in used : j <= k
  IN BigInt(FALSE, SubSeq(limbs, 1, top))

\* Faulty variant: the two length prefixes are left out of the size.
totalSizeWithoutPrefixes(args) ==
  8 + COMMITMENT_LEN + PUBKEY_LEN + EPHEMERAL_LEN + HASH_LEN
    + Len(args.encryptedAmount) + Len(args.proof) + 8

\* `totalSize`
totalSize(args) ==
  8 + COMMITMENT_LEN + PUBKEY_LEN + EPHEMERAL_LEN + HASH_LEN
    + 4 + Len(args.encryptedAmount) + 4 + Len(args.proof) + 8

\* encodeShieldedTransferData(args): the Buffer returned, or None when it
\* throws a RangeError: a write does not fit the buffer or the amount is not
\* a u64.
encodeShieldedTransferData(args) ==
  LET encryptedAmountLen == Len(args.encryptedAmount)
      proofLen == Len(args.proof)
      size == totalSize(args)
      b0 == Alloc(size)
      b1 == CopyInto(b0, DISCRIMINATOR, 0)
      b2 == CopyInto(b1, args.amountCommitment, 8)
      b3 == CopyInto(b2, args.stealthPubkey, 8 + 33)
      b4 == CopyInto(b3, args.ephemeralPubkey, 8 + 33 + 32)
      b5 == CopyInto(b4, args.viewingKeyHash, 8 + 33 + 32 + 33)
      o5 == 8 + 33 + 32 + 33 + 32
      b6 == CopyInto(b5, UInt32LE(encryptedAmountLen), o5)
      b7 == CopyInto(b6, args.encryptedAmount, o5 + 4)
      o7 == o5 + 4 + encryptedAmountLen
      b8 == CopyInto(b7, UInt32LE(proofLen), o7)
      b9 == CopyInto(b8, args.proof, o7 + 4)
      o9 == o7 + 4 + proofLen
  IN IF o5 + 4 > size \/ o7 + 4 > size \/ o9 + 8 > size \/ ~IsU64(args.actualAmount)
       THEN None
       ELSE Some(CopyInto(b9, BigUInt64LE(args.actualAmount), o9))

\* Reading instruction data back at the documented offsets; `end` is the
\* offset after the last field, None when the data is too short.
decodeShieldedTransferData(data) ==
  LET o5 == 8 + COMMITMENT_LEN + PUBKEY_LEN + EPHEMERAL_LEN + HASH_LEN
      encLen == IF Len(data) >= o5 + 4 THEN ReadUInt32LE(data, o5) ELSE -1
      o7 == o5 + 4 + encLen
      proofLen == IF encLen >= 0 /\ Len(data) >= o7 + 4
                    THEN ReadUInt32LE(data, o7) ELSE -1
      o9 == o7 + 4 + proofLen
  IN IF encLen < 0 \/ proofLen < 0 \/ Len(data) < o9 + 8 THEN None
     ELSE Some([discriminator |-> SubSeq(data, 1, 8),
                args |-> [amountCommitment |-> SubSeq(data, 9, 8 + COMMITMENT_LEN),
                          stealthPubkey |-> SubSeq(data, 42, 41 + PUBKEY_LEN),
                          ephemeralPubkey |-> SubSeq(data, 74, 73 + EPHEMERAL_LEN),
                          viewingKeyHash |-> SubSeq(data, 107, 106 + HASH_LEN),
                          encryptedAmount |-> SubSeq(data, o5 + 5, o7),
                          proof |-> SubSeq(data, o7 + 5, o9),
                          actualAmount |-> ReadBigUInt64LE(data, o9)],
                end |-> o9 + 8])

\* A valid ShieldedTransferArgs: fields of the documented lengths, bytes, and
\* a u64 amount.
IsBytes(q) == \A i \in 1..Len(q) : q[i] \in 0..255
IsValidArgs(args) ==
  /\ Len(args.amountCommitment) = COMMITMENT_LEN /\ IsBytes(args.amountCommitment)
  /\ Len(args.stealthPubkey) = PUBKEY_LEN /\ IsBytes(args.stealthPubkey)
  /\ Len(args.ephemeralPubkey) = EPHEMERAL_LEN /\ IsBytes(args.ephemeralPubkey)
  /\ Len(args.viewingKeyHash) = HASH_LEN /\ IsBytes(args.viewingKeyHash)
  /\ IsBytes(args.encryptedAmount) /\ IsBytes(args.proof)
  /\ IsU64(args.actualAmount)

\* encodeShieldedTransferData(args) is called.
Encode ==
  /\ codecPc = "start"
  /\ LET data == encodeShieldedTransferData(codecArgs)
     IN IF data = None
          THEN codecPc' = "error" /\ UNCHANGED codecData
          ELSE codecPc' = "encoded" /\ codecData' = data[1]
  /\ UNCHANGED <<codecArgs, codecDecoded>>
  /\ UNCHANGED notCodecVars

\* The instruction data is read back.
Decode ==
  /\ codecPc = "encoded"
  /\ codecDecoded' = decodeShieldedTransferData(codecData)
  /\ codecPc' = "decoded"
  /\ UNCHANGED <<codecArgs, codecData>>
  /\ UNCHANGED notCodecVars

\* len bytes: first, first + step, ... (mod 256)
Bytes(len, first, step) == [i \in 1..len |-> (first + (i - 1) * step) % 256]

\* The arguments tried: byte arrays of the lengths of the layout (and one
\* commitment of 32 bytes), byte strings of 0 to 300 bytes, amounts up to
\* 2^64 - 1 and two that are no u64.
CodecArgs ==
  [amountCommitment : {Bytes(33, 2, 7), Bytes(33, 255, 0), Bytes(32, 1, 1)},
   stealthPubkey : {Bytes(32, 0, 0), Bytes(32, 200, 3)},
   ephemeralPubkey : {Bytes(33, 3, 5)},
   viewingKeyHash : {Bytes(32, 17, 11)},
   encryptedAmount :
     {Bytes(0, 0, 0), Bytes(1, 9, 0), Bytes(64, 1, 1), Bytes(300, 250, 1)},
   proof : {Bytes(0, 0, 0), Bytes(128, 128, 1), Bytes(256, 0, 1)},
   actualAmount :
     { BigIntOf(0), BigIntOf(1), BigIntOf(500000), BigIntOf(1000000000),
       BigInt(FALSE, <<0, 0, 1>>), BigInt(FALSE, <<65535, 65535, 65535, 65535>>),
       BigInt(FALSE, <<513, 0, 0, 1027>>), BigInt(FALSE, <<0, 0, 0, 0, 1>>),
       BigIntOf(-1) }]

CodecNext ==
  \/ Encode
  \/ Decode

(***************************************************************************)
(* fetchConfig and buildShieldedTransfer with their data                   *)
(*                                                                         *)
(* The config account is a Buffer; the crypto of ./crypto is symbolic: a   *)
(* private key is PrivateKey(k) for a number k, its public key PublicOf of *)
(* it, and the shared secret of a private and a public key is the          *)
(* Diffie-Hellman value, the same from either side.                        *)
(***************************************************************************)
UNDEFINED == -1
CONFIG_DISCRIMINATOR_LEN == 8
LAMPORTS_PER_SOL == 1000000000

\* buffer[index] (index 0-based), undefined beyond the end
ByteAt(data, index) == IF index < Len(data) THEN data[index + 1] ELSE UNDEFINED

\* data.slice(from, to)
BufferSlice(data, from, to) == SubSeq(data, from + 1, Min(to, Len(data)))

\* readUInt16LE(offset), offset + 2 <= length
ReadUInt16LE(data, offset) == data[offset + 1] + 256 * data[offset + 2]

\* The account data of a config, as the program lays it out.
EncodeConfig(c) ==
  Bytes(8, 155, 12) \o c.authority \o c.feeCollector
    \o <<c.feeBps % 256, c.feeBps \div 256>>
    \o <<IF c.paused THEN 1 ELSE 0>>
    \o BigUInt64LE(c.totalTransfers) \o <<c.bump>>

\* Lines 143-167 of fetchConfig: the fields parsed from the account data, or
\* None when a read throws a RangeError (readUInt16LE and readBigUInt64LE
\* check the length, indexing and slicing do not).
ParseConfig(accountData) ==
  LET data == BufferSlice(accountData, CONFIG_DISCRIMINATOR_LEN, Len(accountData))
  IN IF Len(data) < 64 + 2 THEN None
     ELSE IF Len(data) < 67 + 8 THEN None
     ELSE Some([authority |-> BufferSlice(data, 0, 32),
                feeCollector |-> BufferSlice(data, 32, 64),
                feeBps |-> ReadUInt16LE(data, 64),
                paused |-> (ByteAt(data, 66) = 1),
                totalTransfers |-> ReadBigUInt64LE(data, 67),
                bump |-> ByteAt(data, 75)])

\* fetchConfig after getAccountInfo answered: the Config returned (None for
\* null) and how the fetch ended.
FetchConfigOutcome(rpcFailed) ==
  IF rpcFailed THEN [config |-> None, kind |-> "rpcError"]
  ELSE IF accountInfo = None THEN [config |-> None, kind |-> "notFound"]
  ELSE LET parsed == ParseConfig(accountInfo[1])
       IN IF parsed = None THEN [config |-> None, kind |-> "decodeError"]
          ELSE [config |-> parsed, kind |-> "fetched"]

(***************************************************************************)
(* The arithmetic of a JavaScript number (an IEEE 754 double)              *)
(*                                                                         *)
(* A double other than 0 is [m, e] of value m * 2^e with m of 53 bits.  m  *)
(* and the exact products are natural numbers of 8 digits of 14 bits       *)
(* (radix 16384), lowest first, so that no step leaves 32 bits.            *)
(***************************************************************************)
At(a, i) == IF i \in 1..8 THEN a[i] ELSE 0

RECURSIVE CarryInto(_, _)
CarryInto(cols, k) ==
  IF k = 1 THEN 0 ELSE (cols[k - 1] + CarryInto(cols, k - 1)) \div 16384

Normalise(cols) == [k \in 1..8 |-> (cols[k] + CarryInto(cols, k)) % 16384]

\* a natural number below 2^31, and back
Wide(n) == [k \in 1..8 |-> IF k <= 3 THEN (n \div (16384 ^ (k - 1))) % 16384 ELSE 0]
ToInt(a) == a[1] + (a[2] * 16384) + (a[3] * 16384 * 16384)

\* a * n, n below 2^31
MulSmall(a, n) ==
  Normalise([k \in 1..8 |->
     (At(a, k) * Wide(n)[1]) + (At(a, k - 1) * Wide(n)[2])
       + (At(a, k - 2) * Wide(n)[3])])

\* floor(a / 2^s) and a * 2^s
ShiftRight(a, s) ==
  [k \in 1..8 |->
     LET i == k + (s \div 14)
         bs == s % 14
     IN (At(a, i) \div (2 ^ bs)) + ((At(a, i + 1) % (2 ^ bs)) * (2 ^ (14 - bs)))]
ShiftLeft(a, s) ==
  [k \in 1..8 |->
     LET i == k - (s \div 14)
         bs == s % 14
     IN ((At(a, i) * (2 ^ bs)) % 16384) + (At(a, i - 1) \div (2 ^ (14 - bs)))]

Bit(a, i) == (At(a, (i \div 14) + 1) \div (2 ^ (i % 14))) % 2

BitLength(a) ==
  LET used == {k \in 1..8 : a[k] # 0}
  IN IF used = {} THEN 0
     ELSE LET top == CHOOSE k \in used : \A j \in used : j <= k
              b == CHOOSE c \in 1..14 : 2 ^ (c - 1) <= a[top] /\ a[top] < 2 ^ c
          IN ((top - 1) * 14) + b

\* a mod d and floor(a / d), d below 2^14
RECURSIVE RemFrom(_, _, _)
RemFrom(a, d, k) ==
  IF k > 8 THEN 0 ELSE ((RemFrom(a, d, k + 1) * 16384) + a[k]) % d
DivSmall(a, d) == [k \in 1..8 |-> ((RemFrom(a, d, k + 1) * 16384) + a[k]) \div d]

\* The number a decimal literal num / 10^scale (num > 0) denotes: the double
\* nearest to it, ties to even.
ToDouble(num, scale) ==
  LET d == Pow10(scale)
      k0 == (53 - BitLength(Wide(num))) + BitLength(Wide(d))
      Quot(k) == DivSmall(ShiftLeft(Wide(num), k), d)
      k == IF BitLength(Quot(k0)) = 53 THEN k0 ELSE k0 - 1
      r == RemFrom(ShiftLeft(Wide(num), k), d, 1)
      up == 2 * r > d \/ (2 * r = d /\ Bit(Quot(k), 0) = 1)
  IN [m |-> IF up THEN Normalise([Quot(k) EXCEPT ![1] = @ + 1]) ELSE Quot(k),
      e |-> 0 - k]

\* x * n in doubles: the exact product rounded to 53 bits, ties to even.
Times(x, n) ==
  LET p == MulSmall(x.m, n)
      s == BitLength(p) - 53
      q == ShiftRight(p, s)
      up == /\ Bit(p, s - 1) = 1
            /\ (Bit(q, 0) = 1 \/ \E i \in 0..(s - 2) : Bit(p, i) = 1)
  IN IF s <= 0 THEN [m |-> p, e |-> x.e]
     ELSE [m |-> IF up THEN Normalise([q EXCEPT ![1] = @ + 1]) ELSE q,
           e |-> x.e + s]

\* Math.floor of a positive x, below 2^31
Floor(x) ==
  IF x.e >= 0 THEN ToInt(ShiftLeft(x.m, x.e)) ELSE ToInt(ShiftRight(x.m, 0 - x.e))

\* Whether x is no integer.
HasFraction(x) == x.e < 0 /\ ShiftLeft(ShiftRight(x.m, 0 - x.e), 0 - x.e) # x.m

\* BigInt(Math.floor(params.amount * LAMPORTS_PER_SOL)), as an integer, for
\* an amount below 2.147 SOL
Lamports(amount) ==
  IF amount.num = 0 THEN 0
  ELSE IF amount.num > 0
    THEN Floor(Times(ToDouble(amount.num, amount.scale), LAMPORTS_PER_SOL))
  ELSE LET x == Times(ToDouble(0 - amount.num, amount.scale), LAMPORTS_PER_SOL)
       IN 0 - (Floor(x) + (IF HasFraction(x) THEN 1 ELSE 0))

\* ./crypto
PrivateKey(k) == <<"private", k>>
PublicOf(privateKey) == <<"public", privateKey[2]>>
deriveSharedSecret(privateKey, publicKey) == {privateKey[2], publicKey[2]}
encryptAmount(lamports, sharedSecret) ==
  [nonce |-> <<"nonce">>, ciphertext |-> <<"encrypted", lamports, sharedSecret>>]
decryptAmount(encrypted, sharedSecret) ==
  IF encrypted.ciphertext[3] = sharedSecret THEN Some(encrypted.ciphertext[2]) ELSE None
computeViewingKeyHash(viewingKey) == <<"hash", viewingKey>>
createCommitment(lamports) ==
  [commitment |-> <<"commitment", lamports>>, blindingFactor |-> <<"blinding">>]
generateMockProof(commitment, blindingFactor, lamports) ==
  <<"proof", commitment, blindingFactor, lamports>>

\* The key material of a recipient; the sender knows the public halves.
RecipientKeys ==
  { [spendingPrivateKey |-> PrivateKey(1), viewingPrivateKey |-> PrivateKey(2)],
    [spendingPrivateKey |-> PrivateKey(3), viewingPrivateKey |-> PrivateKey(3)] }

\* `sender` and `params` for a recipient; `recipient` is history, the client
\* never sees it.
ParamsFor(s, amount, recipient) ==
  [sender |-> s, amount |-> amount,
   stealthPubkey |-> <<"stealth", recipient.spendingPrivateKey[2]>>,
   recipientSpendingKey |-> PublicOf(recipient.spendingPrivateKey),
   recipientViewingKey |-> PublicOf(recipient.viewingPrivateKey),
   recipient |-> recipient]

XferThrow(msg) ==
  /\ xferPc' = "failed"
  /\ xferError' = msg
  /\ xferLocals' = None
  /\ xferResult' = None

\* buildShieldedTransfer(sender, params) is called: fetchConfig awaits
\* getAccountInfo.
XferStart ==
  /\ xferPc \in {"idle", "returned", "failed"}
  /\ xferCalls < MaxTransfers
  /\ \E amount \in {Num(1, 0), Num(5, 4), Num(1, 3), ZERO, Num(-1, 0),
                     Num(1001, 3), Num(3, 2)},
        recipient \in RecipientKeys, s \in Senders :
       xferParams' = Some(ParamsFor(s, amount, recipient))
  /\ xferCalls' = xferCalls + 1
  /\ xferPc' = "fetchConfig"
  /\ xferConfig' = None
  /\ xferLocals' = None
  /\ xferResult' = None
  /\ xferError' = ""
  /\ xferFetch' = "pending"
  /\ UNCHANGED <<accountInfo, xferKeyLog>>
  /\ UNCHANGED notXferVars

\* fetchConfig returned: the call throws for no config and for a paused
\* program; else the amount is converted and generateEphemeralKeyPair awaited.
XferFetchConfigReturn ==
  /\ xferPc = "fetchConfig"
  /\ \E rpcFailed \in BOOLEAN :
       LET outcome == FetchConfigOutcome(rpcFailed)
       IN /\ xferFetch' = outcome.kind
          /\ xferConfig' = outcome.config
          /\ IF outcome.config = None THEN XferThrow(ERR_NOT_INITIALIZED)
             ELSE IF outcome.config[1].paused THEN XferThrow(ERR_PAUSED)
             ELSE /\ xferPc' = "generateEphemeralKeyPair"
                  /\ xferLocals' = Some([lamports |-> Lamports(xferParams[1].amount)])
                  /\ UNCHANGED <<xferResult, xferError>>
  /\ UNCHANGED <<accountInfo, xferParams, xferKeyLog, xferCalls>>
  /\ UNCHANGED notXferVars

\* Faulty variant: the private half of the ephemeral key pair is returned.
ReturnedEphemeralKeyLeaked(keyPair) == keyPair.privateKey

\* The `ephemeralPubkey` of the instruction data and of the result.
ReturnedEphemeralKey(keyPair) == keyPair.publicKey

\* generateEphemeralKeyPair returned a new pair; the shared secret is derived
\* from its private half and params.recipientSpendingKey, and
\* createCommitment is awaited.
XferKeyPairReturn ==
  /\ xferPc = "generateEphemeralKeyPair"
  /\ \E k \in (11..(11 + MaxTransfers)) \ DOMAIN xferKeyLog :
       /\ xferLocals' = Some(xferLocals[1] @@
            [ephemeralKeyPair |-> [privateKey |-> PrivateKey(k),
                                   publicKey |-> PublicOf(PrivateKey(k))],
             sharedSecret |-> deriveSharedSecret(PrivateKey(k),
                                xferParams[1].recipientSpendingKey)])
       /\ xferKeyLog' = xferKeyLog @@ (k :> xferCalls)
  /\ xferPc' = "createCommitment"
  /\ UNCHANGED <<accountInfo, xferParams, xferConfig, xferResult, xferError,
                 xferFetch, xferCalls>>
  /\ UNCHANGED notXferVars

\* createCommitment answered.  ./crypto takes u64 amounts; what it does with
\* a negative bigint is open: it throws or goes on.
XferCommitmentReturn ==
  /\ xferPc = "createCommitment"
  /\ \E rejected \in (IF xferLocals[1].lamports < 0 THEN BOOLEAN ELSE {FALSE}) :
       IF rejected THEN XferThrow(RANGE_ERROR)
       ELSE /\ xferLocals' = Some(xferLocals[1] @@
                 createCommitment(xferLocals[1].lamports))
            /\ xferPc' = "encryptAmount"
            /\ UNCHANGED <<xferResult, xferError>>
  /\ UNCHANGED <<accountInfo, xferParams, xferConfig, xferFetch, xferKeyLog,
                 xferCalls>>
  /\ UNCHANGED notXferVars

\* encryptAmount answered; the viewing key hash is computed and
\* generateMockProof awaited.
XferEncryptReturn ==
  /\ xferPc = "encryptAmount"
  /\ xferLocals' = Some(xferLocals[1] @@
       [encryptedAmount |-> encryptAmount(xferLocals[1].lamports,
                                          xferLocals[1].sharedSecret),
        viewingKeyHash |-> computeViewingKeyHash(xferParams[1].recipientViewingKey)])
  /\ xferPc' = "generateMockProof"
  /\ UNCHANGED <<accountInfo, xferParams, xferConfig, xferResult, xferError,
                 xferFetch, xferKeyLog, xferCalls>>
  /\ UNCHANGED notXferVars

\* The `args` handed to encodeShieldedTransferData.
TransferArgs(locals, params, proof) ==
  [amountCommitment |-> locals.commitment,
   stealthPubkey |-> params.stealthPubkey,
   ephemeralPubkey |-> ReturnedEphemeralKey(locals.ephemeralKeyPair),
   viewingKeyHash |-> locals.viewingKeyHash,
   encryptedAmount |-> locals.encryptedAmount,
   proof |-> proof,
   actualAmount |-> BigIntOf(locals.lamports)]

\* generateMockProof answered: the addresses are derived, the instruction data
\* encoded (writeBigUInt64LE throws for an amount that is no u64), the
\* transaction built, and getLatestBlockhash awaited.
XferProofReturn ==
  /\ xferPc = "generateMockProof"
  /\ LET locals == xferLocals[1]
         proof == generateMockProof(locals.commitment, locals.blindingFactor,
                                    locals.lamports)
         args == TransferArgs(locals, xferParams[1], proof)
         transferRecordPda == getTransferRecordPda(xferParams[1].sender,
                                xferConfig[1].totalTransfers, SIP_PRIVACY_PROGRAM_ID)
     IN IF ~IsU64(args.actualAmount) THEN XferThrow(RANGE_ERROR)
        ELSE /\ xferLocals' = Some(locals @@
                  [transferRecordPda |-> transferRecordPda,
                   transaction |-> [programId |-> SIP_PRIVACY_PROGRAM_ID,
                                    data |-> args,
                                    feePayer |-> None]])
             /\ xferPc' = "getLatestBlockhash"
             /\ UNCHANGED <<xferResult, xferError>>
  /\ UNCHANGED <<accountInfo, xferParams, xferConfig, xferFetch, xferKeyLog,
                 xferCalls>>
  /\ UNCHANGED notXferVars

\* getLatestBlockhash answered, or failed: the call returns the transaction,
\* the transfer record address and the ephemeral public key.
XferBlockhashReturn ==
  /\ xferPc = "getLatestBlockhash"
  /\ \E failed \in BOOLEAN :
       IF failed THEN XferThrow("Network error")
       ELSE /\ xferResult' = Some(
                 [transaction |-> [xferLocals[1].transaction EXCEPT
                                     !.feePayer = Some(xferParams[1].sender)],
                  transferRecord |-> xferLocals[1].transferRecordPda,
                  ephemeralPubkey |->
                    ReturnedEphemeralKey(xferLocals[1].ephemeralKeyPair)])
            /\ xferPc' = "returned"
            /\ xferLocals' = None
            /\ UNCHANGED xferError
  /\ UNCHANGED <<accountInfo, xferParams, xferConfig, xferFetch, xferKeyLog,
                 xferCalls>>
  /\ UNCHANGED notXferVars

\* What getAccountInfo finds at the config address: nothing, or the first
\* bytes (none, or up to two more than the 84 of the layout) of an account.
AccountInfos ==
  {None} \cup
  {Some(SubSeq(EncodeConfig(c) \o <<0, 0>>, 1, len)) :
     c \in [authority : {Bytes(32, 1, 1)}, feeCollector : {Bytes(32, 200, 1)},
            feeBps : {50}, paused : BOOLEAN,
            totalTransfers : {BigIntOf(0), BigIntOf(70000)}, bump : {254}],
     len \in {0, 8, 60, 74, 82, 83, 84, 86}}

XferNext ==
  \/ XferStart
  \/ XferFetchConfigReturn
  \/ XferKeyPairReturn
  \/ XferCommitmentReturn
  \/ XferEncryptReturn
  \/ XferProofReturn
  \/ XferBlockhashReturn

(***************************************************************************)
(* The rate limiter: isRateLimited, resetRateLimit, getRateLimitRemaining   *)
(*                                                                         *)
(* rateLimitMap is a function of the action; None stands for no entry.     *)
(***************************************************************************)
MaxTime == 4
MaxRateCalls == 4

RateActions == {"test_action", "unknown_action"}

\* Faulty variant: the limit is tested with > in place of >=.
isRateLimitedOffByOne(map, action, maxAttempts, windowMs, t) ==
  LET entry == map[action]
      fresh == [map EXCEPT ![action] = Some([count |-> 1, firstAttempt |-> t])]
  IN IF entry = None THEN [result |-> FALSE, map |-> fresh]
     ELSE IF t - entry[1].firstAttempt > windowMs THEN [result |-> FALSE, map |-> fresh]
     ELSE IF entry[1].count > maxAttempts THEN [result |-> TRUE, map |-> map]
     ELSE [result |-> FALSE,
           map |-> [map EXCEPT ![action] = Some([entry[1] EXCEPT !.count = @ + 1])]]

\* isRateLimited(action, maxAttempts, windowMs) at time t: the value returned
\* and the map it leaves.
isRateLimited(map, action, maxAttempts, windowMs, t) ==
  LET entry == map[action]
      fresh == [map EXCEPT ![action] = Some([count |-> 1, firstAttempt |-> t])]
  IN IF entry = None THEN [result |-> FALSE, map |-> fresh]
     ELSE IF t - entry[1].firstAttempt > windowMs THEN [result |-> FALSE, map |-> fresh]
     ELSE IF entry[1].count >= maxAttempts THEN [result |-> TRUE, map |-> map]
     ELSE [result |-> FALSE,
           map |-> [map EXCEPT ![action] = Some([entry[1] EXCEPT !.count = @ + 1])]]

\* getRateLimitRemaining(action, windowMs) at time t
getRateLimitRemaining(map, action, windowMs, t) ==
  IF map[action] = None THEN 0
  ELSE LET elapsed == t - map[action][1].firstAttempt
           remaining == windowMs - elapsed
       IN IF remaining > 0 THEN remaining ELSE 0

\* A caller asks isRateLimited.  The history keeps the values returned since
\* the first call of the window: the first call ever, after a reset, or more
\* than windowMs after the first call of the window before.
CallIsRateLimited ==
  \E action \in RateActions :
    LET r == isRateLimited(rateLimitMap, action, rateParams[1].maxAttempts,
                           rateParams[1].windowMs, now)
        w == rateWindow[action]
        open == w # None /\ now - w[1].start <= rateParams[1].windowMs
    IN /\ open => Len(w[1].results) < MaxRateCalls
       /\ rateLimitMap' = r.map
       /\ rateWindow' = [rateWindow EXCEPT ![action] =
            IF open THEN Some([w[1] EXCEPT !.results = Append(@, r.result)])
            ELSE Some([start |-> now, results |-> <<r.result>>])]
       /\ rateLast' = Some([op |-> "isRateLimited", action |-> action,
                            limited |-> r.result, remaining |-> 0])
       /\ UNCHANGED <<now, rateParams>>
       /\ UNCHANGED notRateVars

\* resetRateLimit(action)
CallResetRateLimit ==
  \E action \in RateActions :
    /\ rateLimitMap' = [rateLimitMap EXCEPT ![action] = None]
    /\ rateWindow' = [rateWindow EXCEPT ![action] = None]
    /\ rateLast' = Some([op |-> "resetRateLimit", action |-> action,
                         limited |-> FALSE, remaining |-> 0])
    /\ UNCHANGED <<now, rateParams>>
    /\ UNCHANGED notRateVars

\* getRateLimitRemaining(action, windowMs)
CallGetRateLimitRemaining ==
  \E action \in RateActions :
    /\ rateLast' = Some([op |-> "getRateLimitRemaining", action |-> action,
                         limited |-> FALSE,
                         remaining |-> getRateLimitRemaining(rateLimitMap, action,
                                          rateParams[1].windowMs, now)])
    /\ UNCHANGED <<rateLimitMap, now, rateParams, rateWindow>>
    /\ UNCHANGED notRateVars

\* A millisecond passes.
Tick ==
  /\ now < MaxTime
  /\ now' = now + 1
  /\ rateLast' = None
  /\ UNCHANGED <<rateLimitMap, rateParams, rateWindow>>
  /\ UNCHANGED notRateVars

RateNext ==
  \/ CallIsRateLimited
  \/ CallResetRateLimit
  \/ CallGetRateLimitRemaining
  \/ Tick

(***************************************************************************)
(* The useSend hook: send() and reset()                                    *)
(*                                                                         *)
(* send() is cut at its awaits; the state setters of one piece take effect *)
(* together.                                                               *)
(***************************************************************************)
MaxSends == 2

\* str.trim()
Trim(str) ==
  LET kept == {i \in 1..Len(str) : str[i] \notin Whitespace}
  IN IF kept = {} THEN <<>>
     ELSE SubSeq(str, CHOOSE i \in kept : \A j \in kept : i <= j,
                      CHOOSE i \in kept : \A j \in kept : j <= i)

\* useSend.validateAddress
validateAddress(address) ==
  IF Len(address) = 0 \/ Trim(address) = <<>>
    THEN [isValid |-> FALSE, type |-> "invalid", error |-> "Address is required"]
  ELSE IF StartsWith(Trim(address), STEALTH_PREFIX)
    THEN validateStealthAddress(Trim(address))
  ELSE IF ~solanaAddressRegex(Trim(address))
    THEN [isValid |-> FALSE, type |-> "invalid", error |-> "Invalid Solana address"]
  ELSE [isValid |-> TRUE, type |-> "regular", chain |-> <<"s", "o", "l", "a", "n", "a">>]

\* send(params) up to its first await: nothing is touched without a wallet;
\* else the state is cleared and the request validated, and a request that
\* fails is caught at once.
HookSend ==
  \E c \in 1..MaxSends, connected \in BOOLEAN,
     recipient \in { <<>>, <<"i", "n", "v", "a", "l", "i", "d">>, Rep(32, "1"),
                     <<" ">> \o STEALTH_PREFIX
                       \o <<"n", "e", "a", "r", ":", "0", "x", "1", ":", "0", "x", "2">>,
                     STEALTH_PREFIX \o <<"b", "t", "c", ":", "1", ":", "2">> },
     amount \in { <<"1">>, <<"0">>, <<"a", "b", "c">>, <<"1", "0", "1">> } :
    LET validation == validateAddress(recipient)
        amountError == validateAmount(amount, Num(100, 0))
        message == IF ~validation.isValid THEN validation.error
                   ELSE amountError
    IN /\ hookPc[c] = "idle"
       /\ IF ~connected
            THEN /\ hookResult' = [hookResult EXCEPT ![c] = Failure("Wallet not connected")]
                 /\ hookPc' = [hookPc EXCEPT ![c] = "returned"]
                 /\ UNCHANGED <<hookStatus, hookError, hookTxHash>>
          ELSE IF message # ""
            THEN /\ hookStatus' = "error"
                 /\ hookError' = Some(message)
                 /\ hookTxHash' = None
                 /\ hookResult' = [hookResult EXCEPT ![c] = Failure(message)]
                 /\ hookPc' = [hookPc EXCEPT ![c] = "returned"]
          ELSE /\ hookStatus' = "preparing"
               /\ hookError' = None
               /\ hookTxHash' = None
               /\ hookPc' = [hookPc EXCEPT ![c] = "preparing"]
               /\ UNCHANGED hookResult
       /\ UNCHANGED hookPayments
       /\ UNCHANGED notHookVars

\* The 500 ms of preparing are over.
HookPrepared ==
  \E c \in 1..MaxSends :
    /\ hookPc[c] = "preparing"
    /\ hookStatus' = "signing"
    /\ hookPc' = [hookPc EXCEPT ![c] = "signing"]
    /\ UNCHANGED <<hookError, hookTxHash, hookResult, hookPayments>>
    /\ UNCHANGED notHookVars

\* The 500 ms of signing are over.
HookSigned ==
  \E c \in 1..MaxSends :
    /\ hookPc[c] = "signing"
    /\ hookStatus' = "submitting"
    /\ hookPc' = [hookPc EXCEPT ![c] = "submitting"]
    /\ UNCHANGED <<hookError, hookTxHash, hookResult, hookPayments>>
    /\ UNCHANGED notHookVars

\* The 1000 ms of submitting are over: the mock hash (here the number of the call) is made and set, the
\* status becomes confirmed, the payment is recorded and the call returns.
HookSubmitted ==
  \E c \in 1..MaxSends :
    /\ hookPc[c] = "submitting"
    /\ hookTxHash' = Some(ToString(c))
    /\ hookStatus' = "confirmed"
    /\ hookPayments' = Append(hookPayments, ToString(c))
    /\ hookResult' = [hookResult EXCEPT ![c] = Success(ToString(c))]
    /\ hookPc' = [hookPc EXCEPT ![c] = "returned"]
    /\ UNCHANGED hookError
    /\ UNCHANGED notHookVars

\* reset()
HookReset ==
  /\ hookStatus' = "idle"
  /\ hookError' = None
  /\ hookTxHash' = None
  /\ UNCHANGED <<hookPc, hookResult, hookPayments>>
  /\ UNCHANGED notHookVars

HookNext ==
  \/ HookSend
  \/ HookPrepared
  \/ HookSigned
  \/ HookSubmitted
  \/ HookReset

(***************************************************************************)
(* The PIN methods of useBiometrics (specification SpecPin)                *)
(*                                                                         *)
(* verifyPin and setPin are cut at their await of hashPin; a call keeps    *)
(* the store values its closure captured when it was made.                 *)
(***************************************************************************)
MAX_PIN_ATTEMPTS == 5
PIN_LOCKOUT_MS == 5 * 60 * 1000
MaxPinTicks == 2
PinSlots == 1..2
PinGuesses == { <<"1", "2", "3", "4">>, <<"0", "0", "0", "0">> }
NewPins == { <<"1", "2", "3", "4">>, <<"1", "2", "3">>, <<"1", "2", "a", "4">> }

\* hashPin: the SHA-256 digest of the salted PIN, one digest per input
hashPin(pin) == <<"SHA256", pin \o <<"sip-salt-v1">>>>

\* the store's incrementPinAttempts at time t: the attempt that reaches
\* MAX_PIN_ATTEMPTS starts the lockout
incrementPinAttempts(store, t) ==
  IF store.pinAttempts + 1 >= MAX_PIN_ATTEMPTS
    THEN [store EXCEPT !.pinAttempts = @ + 1, !.pinLockedUntil = Some(t + PIN_LOCKOUT_MS)]
    ELSE [store EXCEPT !.pinAttempts = @ + 1]

\* the store's resetPinAttempts
resetPinAttempts(store) ==
  [store EXCEPT !.pinAttempts = 0, !.pinLockedUntil = None]

\* isPinLocked()
isPinLocked(pinLockedUntil, t) ==
  IF pinLockedUntil = None THEN FALSE ELSE t < pinLockedUntil[1]

\* getPinLockRemaining()
getPinLockRemaining(pinLockedUntil, t) ==
  IF pinLockedUntil = None THEN 0
  ELSE IF pinLockedUntil[1] - t > 0 THEN pinLockedUntil[1] - t ELSE 0

IdleCall ==
  [pc |-> "idle", op |-> "", pin |-> <<>>, pinHash |-> None, pinAttempts |-> 0,
   result |-> None]

\* verifyPin(pin) up to its await: a lockout in force or a missing PIN ends
\* the call at once.
VerifyPin ==
  \E c \in PinSlots, pin \in PinGuesses :
    /\ pinCalls[c].pc # "hashing"
    /\ pinCalls' = [pinCalls EXCEPT ![c] =
         IF isPinLocked(securityStore.pinLockedUntil, pinNow)
           THEN [IdleCall EXCEPT !.pc = "done", !.op = "verifyPin", !.pin = pin,
                   !.result = Some([success |-> FALSE,
                     error |-> <<"Too many attempts. Try again in ",
                       ToString((getPinLockRemaining(securityStore.pinLockedUntil, pinNow)
                                  + 999) \div 1000), "s">>])]
         ELSE IF ~securityStore.pinEnabled \/ securityStore.pinHash = None
           THEN [IdleCall EXCEPT !.pc = "done", !.op = "verifyPin", !.pin = pin,
                   !.result = Some([success |-> FALSE, error |-> <<"PIN not set">>])]
         ELSE [IdleCall EXCEPT !.pc = "hashing", !.op = "verifyPin", !.pin = pin,
                 !.pinHash = securityStore.pinHash,
                 !.pinAttempts = securityStore.pinAttempts]]
    /\ UNCHANGED <<securityStore, pinNow>>
    /\ UNCHANGED notPinVars

\* verifyPin after hashPin: a digest equal to the captured hash resets the
\* attempts and authenticates; any other counts as a failed attempt.
VerifyPinHashed ==
  \E c \in PinSlots :
    /\ pinCalls[c].pc = "hashing" /\ pinCalls[c].op = "verifyPin"
    /\ IF hashPin(pinCalls[c].pin) = pinCalls[c].pinHash[1]
         THEN /\ securityStore' =
                   [resetPinAttempts(securityStore) EXCEPT !.isAuthenticated = TRUE]
              /\ pinCalls' = [pinCalls EXCEPT ![c].pc = "done",
                   ![c].result = Some([success |-> TRUE, error |-> <<>>])]
         ELSE /\ securityStore' = incrementPinAttempts(securityStore, pinNow)
              /\ pinCalls' = [pinCalls EXCEPT ![c].pc = "done",
                   ![c].result = Some([success |-> FALSE, error |->
                     LET attemptsLeft == 5 - pinCalls[c].pinAttempts - 1
                     IN IF attemptsLeft > 0
                          THEN <<"Incorrect PIN. ", ToString(attemptsLeft),
                                 IF attemptsLeft # 1 THEN " attempts remaining"
                                 ELSE " attempt remaining">>
                          ELSE <<"Too many attempts. Please wait 5 minutes.">>])]
    /\ UNCHANGED pinNow
    /\ UNCHANGED notPinVars

\* setPin(pin) up to its await: a PIN that is not 4 to 6 digits throws.
SetPin ==
  \E c \in PinSlots, pin \in NewPins :
    /\ pinCalls[c].pc # "hashing"
    /\ pinCalls' = [pinCalls EXCEPT ![c] =
         IF Len(pin) < 4 \/ Len(pin) > 6
           THEN [IdleCall EXCEPT !.pc = "done", !.op = "setPin", !.pin = pin,
                   !.result = Some([success |-> FALSE,
                                    error |-> <<"PIN must be 4-6 digits">>])]
         ELSE IF \E i \in 1..Len(pin) : pin[i] \notin DigitChars
           THEN [IdleCall EXCEPT !.pc = "done", !.op = "setPin", !.pin = pin,
                   !.result = Some([success |-> FALSE,
                                    error |-> <<"PIN must contain only numbers">>])]
         ELSE [IdleCall EXCEPT !.pc = "hashing", !.op = "setPin", !.pin = pin]]
    /\ UNCHANGED <<securityStore, pinNow>>
    /\ UNCHANGED notPinVars

\* setPin after hashPin: the hash is stored, the PIN enabled, the attempts reset.
SetPinHashed ==
  \E c \in PinSlots :
    /\ pinCalls[c].pc = "hashing" /\ pinCalls[c].op = "setPin"
    /\ securityStore' = [resetPinAttempts(securityStore) EXCEPT
                           !.pinHash = Some(hashPin(pinCalls[c].pin)),
                           !.pinEnabled = TRUE]
    /\ pinCalls' = [pinCalls EXCEPT ![c].pc = "done",
                      ![c].result = Some([success |-> TRUE, error |-> <<>>])]
    /\ UNCHANGED pinNow
    /\ UNCHANGED notPinVars

\* clearPin()
ClearPin ==
  /\ securityStore.pinEnabled
  /\ securityStore' = [resetPinAttempts(securityStore) EXCEPT
                         !.pinEnabled = FALSE, !.pinHash = None]
  /\ UNCHANGED <<pinCalls, pinNow>>
  /\ UNCHANGED notPinVars

\* Half a lockout period passes.
PinTick ==
  /\ pinNow < MaxPinTicks * (PIN_LOCKOUT_MS \div 2)
  /\ pinNow' = pinNow + (PIN_LOCKOUT_MS \div 2)
  /\ UNCHANGED <<securityStore, pinCalls>>
  /\ UNCHANGED notPinVars

PinNext ==
  \/ VerifyPin
  \/ VerifyPinHashed
  \/ SetPin
  \/ SetPinHashed
  \/ ClearPin
  \/ PinTick

(***************************************************************************)
(* The client factory (specification SpecClient)                           *)
(*                                                                         *)
(* A client object is [id, connection, programId]; the id stands for the   *)
(* object's identity, one per `new SipPrivacyClient`.                      *)
(***************************************************************************)
MaxClientCalls == 4
ClientConnections == {"devnet", "mainnet"}
ClientProgramIds == {None, Some(SIP_PRIVACY_PROGRAM_ID), Some("OtherProgram")}

\* new SipPrivacyClient(connection, programId): an omitted program id is the
\* default one
NewSipPrivacyClient(id, connection, programId) ==
  [id |-> id, connection |-> connection,
   programId |-> IF programId = None THEN SIP_PRIVACY_PROGRAM_ID ELSE programId[1]]

getSipPrivacyClientRebinding(instance, made, connection, programId) ==
  IF instance = None \/ instance[1].connection # connection
    THEN [instance |-> Some(NewSipPrivacyClient(made + 1, connection, programId)),
          made |-> made + 1]
    ELSE [instance |-> instance, made |-> made]

\* getSipPrivacyClient(connection, programId?): the instance afterwards (which
\* is what the call returns) and the number of objects made
getSipPrivacyClient(instance, made, connection, programId) ==
  IF instance = None
    THEN [instance |-> Some(NewSipPrivacyClient(made + 1, connection, programId)),
          made |-> made + 1]
    ELSE [instance |-> instance, made |-> made]

CallGetSipPrivacyClient ==
  \E connection \in ClientConnections, programId \in ClientProgramIds :
    LET after == getSipPrivacyClient(clientInstance, clientsMade, connection, programId)
    IN /\ Len(clientLog) < MaxClientCalls
       /\ clientInstance' = after.instance
       /\ clientsMade' = after.made
       /\ clientLog' = Append(clientLog, [op |-> "get", connection |-> connection,
                                          programId |-> programId,
                                          returned |-> after.instance])
       /\ UNCHANGED notClientVars

\* resetSipPrivacyClient()
CallResetSipPrivacyClient ==
  /\ Len(clientLog) < MaxClientCalls
  /\ clientInstance' = None
  /\ clientLog' = Append(clientLog, [op |-> "reset", connection |-> "",
                                     programId |-> None, returned |-> None])
  /\ UNCHANGED clientsMade
  /\ UNCHANGED notClientVars

ClientNext ==
  \/ CallGetSipPrivacyClient
  \/ CallResetSipPrivacyClient

(***************************************************************************)
(* The useSeedVault hook (specifications SpecVault, SpecVaultFair)         *)
(*                                                                         *)
(* Each async function is cut at its awaits of the library import and of   *)
(* the Seed Vault calls; the outcome of a Seed Vault call is chosen when   *)
(* the call resumes.  The state setters of one piece take effect together. *)
(* The application calls the hook's methods once the mount effect has run. *)
(***************************************************************************)
MaxSelects == 1
MaxDisconnects == 1
SOLANA_DERIVATION_PATH == "m/44'/501'/0'/0'"
SeedOne == [authToken |-> 1, name |-> "Seed 1", purpose |-> 0]
SeedTwo == [authToken |-> 2, name |-> "Seed 2", purpose |-> 0]
\* what lib.SeedVault.getAuthorizedSeeds() can deliver (None: it rejects)
SeedListings == {None, Some(<<>>), Some(<<SeedOne>>), Some(<<SeedTwo, SeedOne>>)}

\* getSeedVaultLib(): null off Android and when the import fails
getSeedVaultLib(env) == env.os = "android" /\ env.libLoads

NoCall == [pc |-> "idle", authToken |-> 0, seedName |-> "", epoch |-> 0]

\* selectSeed(authToken) up to its first await
StartSelectSeed(c, authToken) ==
  /\ vault' = [vault EXCEPT !.isLoading = TRUE, !.error = None]
  /\ vaultSelect' = [vaultSelect EXCEPT ![c] =
       [pc |-> "lib", authToken |-> authToken, seedName |-> "", epoch |-> vaultEpoch]]

\* the catch block of selectSeed
SelectSeedFails(c, message) ==
  /\ vault' = [vault EXCEPT !.error = Some(message), !.isLoading = FALSE]
  /\ vaultSelect' = [vaultSelect EXCEPT ![c].pc = "rejected"]
  /\ UNCHANGED vaultReconnected

\* The effect run on mount, up to the first await of checkAvailability.
VaultMount ==
  /\ vaultInit.pc = "mount"
  /\ IF vaultEnv.os # "android"
       THEN /\ vault' = [vault EXCEPT !.isLoading = TRUE, !.isAvailable = FALSE]
            /\ vaultInit' = [vaultInit EXCEPT !.pc = "unavailable"]
       ELSE /\ vault' = [vault EXCEPT !.isLoading = TRUE]
            /\ vaultInit' = [vaultInit EXCEPT !.pc = "checkAvailability.lib"]
  /\ UNCHANGED <<vaultEnv, vaultSelect, vaultSign, vaultEpoch, vaultReconnected>>
  /\ UNCHANGED notVaultVars

\* checkAvailability resumes: after the import, and after
\* isSeedVaultAvailable, which answers or throws.
InitAvailability ==
  /\ \/ /\ vaultInit.pc = "checkAvailability.lib"
        /\ IF getSeedVaultLib(vaultEnv)
             THEN /\ vaultInit' = [vaultInit EXCEPT !.pc = "checkAvailability.available"]
                  /\ UNCHANGED vault
             ELSE /\ vault' = [vault EXCEPT !.isAvailable = FALSE]
                  /\ vaultInit' = [vaultInit EXCEPT !.pc = "unavailable"]
     \/ /\ vaultInit.pc = "checkAvailability.available"
        /\ \E available \in {"true", "false", "throws"} :
             /\ vault' = [vault EXCEPT !.isAvailable = (available = "true")]
             /\ vaultInit' = [vaultInit EXCEPT !.pc =
                  IF available = "true" THEN "getAuthorizedSeeds.lib" ELSE "unavailable"]
  /\ UNCHANGED <<vaultEnv, vaultSelect, vaultSign, vaultEpoch, vaultReconnected>>
  /\ UNCHANGED notVaultVars

\* getAuthorizedSeeds resumes: after the import, and after the listing, a
\* failure of which gives no seed.  With a seed listed the effect calls
\* selectSeed for the first one.
InitSeeds ==
  /\ \/ /\ vaultInit.pc = "getAuthorizedSeeds.lib"
        /\ vaultInit' = [vaultInit EXCEPT !.pc =
             IF getSeedVaultLib(vaultEnv) THEN "getAuthorizedSeeds.seeds" ELSE "unavailable"]
        /\ UNCHANGED <<vault, vaultSelect>>
     \/ /\ vaultInit.pc = "getAuthorizedSeeds.seeds"
        /\ \E listing \in SeedListings :
             LET seeds == IF listing = None THEN <<>> ELSE listing[1]
             IN IF Len(seeds) > 0
                  THEN /\ StartSelectSeed(0, seeds[1].authToken)
                       /\ vaultInit' = [pc |-> "selectSeed", seeds |-> seeds]
                  ELSE /\ vaultInit' = [pc |-> "unavailable", seeds |-> seeds]
                       /\ UNCHANGED <<vault, vaultSelect>>
  /\ UNCHANGED <<vaultEnv, vaultSign, vaultEpoch, vaultReconnected>>
  /\ UNCHANGED notVaultVars

InitFinishUncaught ==
  /\ \/ vaultInit.pc = "unavailable"
     \/ vaultInit.pc = "selectSeed" /\ vaultSelect[0].pc = "resolved"
  /\ vault' = [vault EXCEPT !.isInitialized = TRUE, !.isLoading = FALSE]
  /\ vaultInit' = [vaultInit EXCEPT !.pc = "done"]
  /\ UNCHANGED <<vaultEnv, vaultSelect, vaultSign, vaultEpoch, vaultReconnected>>
  /\ UNCHANGED notVaultVars

\* The end of the effect: nothing to select, or its selectSeed has settled.
InitFinish ==
  /\ \/ vaultInit.pc = "unavailable"
     \/ vaultInit.pc = "selectSeed" /\ vaultSelect[0].pc \in {"resolved", "rejected"}
  /\ vault' = [vault EXCEPT !.isInitialized = TRUE, !.isLoading = FALSE]
  /\ vaultInit' = [vaultInit EXCEPT !.pc = "done"]
  /\ UNCHANGED <<vaultEnv, vaultSelect, vaultSign, vaultEpoch, vaultReconnected>>
  /\ UNCHANGED notVaultVars

\* selectSeed(authToken) called by the application
CallSelectSeed ==
  \E c \in 1..MaxSelects, authToken \in {1, 2} :
    /\ vaultInit.pc # "mount"
    /\ vaultSelect[c].pc = "idle"
    /\ \A b \in 1..(c - 1) : vaultSelect[b].pc # "idle"
    /\ StartSelectSeed(c, authToken)
    /\ UNCHANGED <<vaultEnv, vaultInit, vaultSign, vaultEpoch, vaultReconnected>>
    /\ UNCHANGED notVaultVars

\* selectSeed resumes: after the import, after the listing, after getPublicKey
SelectSeedResume ==
  \E c \in 0..MaxSelects :
    /\ \/ /\ vaultSelect[c].pc = "lib"
          /\ IF getSeedVaultLib(vaultEnv)
               THEN /\ vaultSelect' = [vaultSelect EXCEPT ![c].pc = "seeds"]
                    /\ UNCHANGED <<vault, vaultReconnected>>
               ELSE SelectSeedFails(c, "Seed Vault not available")
       \/ /\ vaultSelect[c].pc = "seeds"
          /\ \E listing \in SeedListings :
               IF listing = None
                 THEN SelectSeedFails(c, "getAuthorizedSeeds rejected")
               ELSE IF \A i \in 1..Len(listing[1]) :
                         listing[1][i].authToken # vaultSelect[c].authToken
                 THEN SelectSeedFails(c, "Seed not found")
               ELSE LET i == CHOOSE i \in 1..Len(listing[1]) :
                               /\ listing[1][i].authToken = vaultSelect[c].authToken
                               /\ \A j \in 1..(i - 1) :
                                    listing[1][j].authToken # vaultSelect[c].authToken
                    IN /\ vaultSelect' = [vaultSelect EXCEPT ![c].pc = "publicKey",
                                            ![c].seedName = listing[1][i].name]
                       /\ UNCHANGED <<vault, vaultReconnected>>
       \/ /\ vaultSelect[c].pc = "publicKey"
          /\ \E delivered \in BOOLEAN :
               IF ~delivered THEN SelectSeedFails(c, "getPublicKey rejected")
               ELSE /\ vault' = [vault EXCEPT !.isLoading = FALSE,
                          !.wallet = Some([publicKey |-> <<"key", vaultSelect[c].authToken>>,
                                           authToken |-> vaultSelect[c].authToken,
                                           derivationPath |-> SOLANA_DERIVATION_PATH,
                                           seedName |-> vaultSelect[c].seedName])]
                    /\ vaultSelect' = [vaultSelect EXCEPT ![c].pc = "resolved"]
                    /\ vaultReconnected' =
                         (vaultReconnected \/ vaultSelect[c].epoch = vaultEpoch)
    /\ UNCHANGED <<vaultEnv, vaultInit, vaultSign, vaultEpoch>>
    /\ UNCHANGED notVaultVars

\* disconnect()
Disconnect ==
  /\ vaultInit.pc # "mount"
  /\ vaultEpoch < MaxDisconnects
  /\ vault' = [vault EXCEPT !.wallet = None]
  /\ vaultEpoch' = vaultEpoch + 1
  /\ vaultReconnected' = FALSE
  /\ UNCHANGED <<vaultEnv, vaultInit, vaultSelect, vaultSign>>
  /\ UNCHANGED notVaultVars

\* signTransaction(tx) or signMessage(message) up to its await: without a
\* wallet the call throws at once.
CallSign ==
  \E method \in {"signTransaction", "signMessage"} :
    /\ vaultInit.pc # "mount"
    /\ vaultSign.pc \in {"idle", "resolved", "rejected"}
    /\ vaultSign' =
         IF vault.wallet = None
           THEN [pc |-> "rejected", method |-> method, wallet |-> None,
                 error |-> "No wallet connected", vaultCalled |-> FALSE,
                 disconnected |-> (vaultEpoch > 0 /\ ~vaultReconnected)]
           ELSE [pc |-> "lib", method |-> method, wallet |-> vault.wallet,
                 error |-> "", vaultCalled |-> FALSE,
                 disconnected |-> (vaultEpoch > 0 /\ ~vaultReconnected)]
    /\ UNCHANGED <<vault, vaultEnv, vaultInit, vaultSelect, vaultEpoch, vaultReconnected>>
    /\ UNCHANGED notVaultVars

\* the signing call resumes: after the import, and after the Seed Vault has
\* signed (or refused) with the wallet the call captured
SignResume ==
  /\ \/ /\ vaultSign.pc = "lib"
        /\ vaultSign' =
             IF getSeedVaultLib(vaultEnv)
               THEN [vaultSign EXCEPT !.pc = "signing", !.vaultCalled = TRUE]
               ELSE [vaultSign EXCEPT !.pc = "rejected",
                                      !.error = "Seed Vault not available"]
     \/ /\ vaultSign.pc = "signing"
        /\ \E signed \in BOOLEAN :
             vaultSign' = IF signed THEN [vaultSign EXCEPT !.pc = "resolved"]
                          ELSE [vaultSign EXCEPT !.pc = "rejected",
                                                 !.error = "signing rejected"]
  /\ UNCHANGED <<vault, vaultEnv, vaultInit, vaultSelect, vaultEpoch, vaultReconnected>>
  /\ UNCHANGED notVaultVars

\* the steps that settle the mount effect's awaits
InitProgress ==
  \/ VaultMount
  \/ InitAvailability
  \/ InitSeeds
  \/ InitFinish
  \/ SelectSeedResume

\* the hook without its signing methods, which leave its state alone
VaultStateNext ==
  \/ VaultMount
  \/ InitAvailability
  \/ InitSeeds
  \/ InitFinish
  \/ CallSelectSeed
  \/ SelectSeedResume
  \/ Disconnect

VaultNext ==
  \/ VaultMount
  \/ InitAvailability
  \/ InitSeeds
  \/ InitFinish
  \/ CallSelectSeed
  \/ SelectSeedResume
  \/ Disconnect
  \/ CallSign
  \/ SignResume

(***************************************************************************)
(* Parked values of the flows a specification does not run                 *)
(***************************************************************************)
Parked(flows) ==
  /\ "send" \in flows =>
        /\ sendPc = "idle" /\ sendParams = None /\ sendBalance = ZERO
        /\ sendStatus = "idle" /\ sendResult = None /\ signCalls = 0
        /\ signedTx = None /\ rpcCalls = <<>> /\ shouldFail = FALSE
  /\ "claim" \in flows =>
        /\ claimPc = "idle" /\ claimMode = "single" /\ claimPayments = <<>>
        /\ claimIndex = 0 /\ claimKeys = FALSE /\ claimStatus = "idle"
        /\ claimResults = <<>> /\ claimFlowRpc = 0 /\ claimShouldFail = FALSE
        /\ claimedCount = <<>>
  /\ "scan" \in flows =>
        /\ scanPc = "idle" /\ announcements = <<>> /\ existingTxHashes = {}
        /\ fromTimestamp = 0 /\ scanKeys = FALSE /\ scanIndex = 0
        /\ scanResult = EmptyScanResult /\ scanStage = "idle" /\ scanRound = 0
        /\ scanFirstFound = 0 /\ scanBatchSizes = <<>> /\ scanCancelAt = -1
  /\ "stealth" \in flows =>
        /\ stealthPc = "start" /\ metaAddress = None /\ stealthString = <<>>
        /\ stealthParsed = None /\ addressValidation = None
  /\ "codec" \in flows =>
        /\ codecPc = "start" /\ codecArgs = None /\ codecData = <<>>
        /\ codecDecoded = None
  /\ "xfer" \in flows =>
        /\ accountInfo = None /\ xferPc = "idle" /\ xferParams = None
        /\ xferConfig = None /\ xferLocals = None /\ xferResult = None
        /\ xferError = "" /\ xferFetch = "pending" /\ xferKeyLog = <<>>
        /\ xferCalls = 0
  /\ "rate" \in flows =>
        /\ rateLimitMap = <<>> /\ now = 0 /\ rateParams = None
        /\ rateWindow = <<>> /\ rateLast = None
  /\ "hook" \in flows =>
        /\ hookStatus = "idle" /\ hookError = None /\ hookTxHash = None
        /\ hookPc = <<>> /\ hookResult = <<>> /\ hookPayments = <<>>
  /\ "pin" \in flows =>
        /\ securityStore = None /\ pinCalls = <<>> /\ pinNow = 0
  /\ "client" \in flows =>
        /\ clientInstance = None /\ clientsMade = 0 /\ clientLog = <<>>
  /\ "vault" \in flows =>
        /\ vault = None /\ vaultEnv = None /\ vaultInit = None
        /\ vaultSelect = <<>> /\ vaultSign = None /\ vaultEpoch = 0
        /\ vaultReconnected = FALSE

Init == BuildInit /\ Parked({"send", "claim", "scan", "stealth", "codec", "xfer", "rate", "hook", "pin", "client", "vault"})
Next == BuildNext
Spec == Init /\ [][Next]_vars

SpecSend == Init /\ [][SendNext]_vars

\* No payment of the store has been claimed.
InitClaim ==
  /\ claimPc = "idle" /\ claimMode = "single" /\ claimPayments = <<>>
  /\ claimIndex = 0 /\ claimKeys = FALSE /\ claimStatus = "idle"
  /\ claimResults = <<>> /\ claimFlowRpc = 0 /\ claimShouldFail = FALSE
  /\ claimedCount = [id \in PaymentIds |-> 0]
  /\ BuildInit /\ Parked({"send", "scan", "stealth", "codec", "xfer", "rate", "hook", "pin", "client", "vault"})
SpecClaim == InitClaim /\ [][ClaimNext]_vars

SpecScan == Init /\ [][ScanNext]_vars

\* The timer of the pause between two batches always fires.
SpecScanFair == SpecScan /\ WF_vars(ScanDelayDone)

\* A meta-address to format, or a string to parse.
InitStealth ==
  /\ stealthPc = "start"
  /\ stealthParsed = None
  /\ addressValidation = None
  /\ \/ \E m \in MetaAddresses : metaAddress = Some(m) /\ stealthString = <<>>
     \/ \E str \in RawStealthStrings : metaAddress = None /\ stealthString = str
  /\ BuildInit /\ Parked({"send", "claim", "scan", "codec", "xfer", "rate", "hook", "pin", "client", "vault"})
SpecStealth == InitStealth /\ [][StealthNext]_vars

\* The arguments to encode.
InitCodec ==
  /\ codecPc = "start"
  /\ codecArgs \in CodecArgs
  /\ codecData = <<>>
  /\ codecDecoded = None
  /\ BuildInit /\ Parked({"send", "claim", "scan", "stealth", "xfer", "rate", "hook", "pin", "client", "vault"})
SpecCodec == InitCodec /\ [][CodecNext]_vars

\* The config account on chain; no call made yet.
InitTransfer ==
  /\ accountInfo \in AccountInfos
  /\ xferPc = "idle" /\ xferParams = None /\ xferConfig = None
  /\ xferLocals = None /\ xferResult = None /\ xferError = ""
  /\ xferFetch = "pending" /\ xferKeyLog = <<>> /\ xferCalls = 0
  /\ BuildInit /\ Parked({"send", "claim", "scan", "stealth", "codec", "rate", "hook", "pin", "client", "vault"})
SpecTransfer == InitTransfer /\ [][XferNext]_vars

\* The module has just been loaded: the map is empty.
InitRate ==
  /\ rateLimitMap = [action \in RateActions |-> None]
  /\ now = 0
  /\ \E maxAttempts \in {1, 2, 3}, windowMs \in {1, 2} :
       rateParams = Some([maxAttempts |-> maxAttempts, windowMs |-> windowMs])
  /\ rateWindow = [action \in RateActions |-> None]
  /\ rateLast = None
  /\ BuildInit /\ Parked({"send", "claim", "scan", "stealth", "codec", "xfer", "hook", "pin", "client", "vault"})
SpecRate == InitRate /\ [][RateNext]_vars

\* The hook has just been mounted.
InitHook ==
  /\ hookStatus = "idle" /\ hookError = None /\ hookTxHash = None
  /\ hookPc = [c \in 1..MaxSends |-> "idle"]
  /\ hookResult = [c \in 1..MaxSends |-> None]
  /\ hookPayments = <<>>
  /\ BuildInit
  /\ Parked({"send", "claim", "scan", "stealth", "codec", "xfer", "rate", "pin", "client", "vault"})
SpecHook == InitHook /\ [][HookNext]_vars

\* The store as first created: no PIN, no failed attempt, not authenticated.
InitPin ==
  /\ securityStore = [pinEnabled |-> FALSE, pinHash |-> None, pinAttempts |-> 0,
                      pinLockedUntil |-> None, isAuthenticated |-> FALSE]
  /\ pinCalls = [c \in PinSlots |-> IdleCall]
  /\ pinNow = 0
  /\ BuildInit
  /\ Parked({"send", "claim", "scan", "stealth", "codec", "xfer", "rate", "hook", "client", "vault"})
SpecPin == InitPin /\ [][PinNext]_vars

\* The module has just been loaded.
InitClient ==
  /\ clientInstance = None /\ clientsMade = 0 /\ clientLog = <<>>
  /\ BuildInit
  /\ Parked({"send", "claim", "scan", "stealth", "codec", "xfer", "rate", "hook", "pin", "vault"})
SpecClient == InitClient /\ [][ClientNext]_vars

\* The hook has just been mounted, on some device.
InitVault ==
  /\ vault = [wallet |-> None, isAvailable |-> FALSE, isLoading |-> TRUE,
              isInitialized |-> FALSE, error |-> None]
  /\ vaultEnv \in [os : {"android", "ios"}, libLoads : BOOLEAN]
  /\ vaultInit = [pc |-> "mount", seeds |-> <<>>]
  /\ vaultSelect = [c \in 0..MaxSelects |-> NoCall]
  /\ vaultSign = [pc |-> "idle", method |-> "", wallet |-> None, error |-> "",
                  vaultCalled |-> FALSE, disconnected |-> FALSE]
  /\ vaultEpoch = 0
  /\ vaultReconnected = FALSE
  /\ BuildInit
  /\ Parked({"send", "claim", "scan", "stealth", "codec", "xfer", "rate", "hook", "pin", "client"})
SpecVault == InitVault /\ [][VaultNext]_vars
\* Every await of the mount effect settles: the import and the Seed Vault
\* calls resolve or reject.
SpecVaultFair == InitVault /\ [][VaultStateNext]_vars /\ WF_vars(InitProgress)

(***************************************************************************)
(* Claims about executeSendFlow (specification SpecSend)                   *)
(***************************************************************************)
SignRejected == signCalls = 1 /\ signedTx = None /\ sendPc # "signTransaction"

\* C3: when the signer returns no signed transaction the flow ends with the
\* error "Transaction signing rejected" and has made no sendTransaction and no
\* confirmTransaction call.
C3_RejectedSigningSendsNothing ==
  SignRejected =>
    /\ sendPc = "done"
    /\ sendStatus = "error"
    /\ sendResult = Failure(ERR_SIGNING_REJECTED)
    /\ rpcCalls = <<>>

C3_Witness == SignRejected /\ sendPc = "done" /\ shouldFail

BelowMinimum(params, balance) ==
  LET a == parseFloat(params.amount)
  IN Lt(ZERO, a) /\ Lt(a, MIN_AMOUNT) /\ Le(a, balance)

RecipientWellFormed(params) ==
  /\ ~TrimIsEmpty(params.recipient)
  /\ \/ StartsWith(params.recipient, STEALTH_PREFIX)
     \/ solanaAddressRegex(params.recipient)

MinimumOutcome ==
  /\ sendPc = "done"
  /\ sendStatus = "error"
  /\ sendResult = Failure(ERR_MINIMUM)
  /\ signCalls = 0
  /\ rpcCalls = <<>>

\* C10 as stated: every request with 0 < amount < 0.001 and amount <= balance
\* ends with "Minimum amount is 0.001 SOL", no signing call and no network call.
C10_Original ==
  (sendParams # None /\ BelowMinimum(sendParams[1], sendBalance)) => MinimumOutcome

\* C10 amended: the same, for requests whose recipient passes the recipient
\* validation (not blank, and a sip: address or a base58 string of 32 to 44
\* characters); useSend.validateAmount names the same error for the amount.
C10_BelowMinimumRejected ==
  ( /\ sendParams # None
    /\ BelowMinimum(sendParams[1], sendBalance)
    /\ RecipientWellFormed(sendParams[1]) )
  => /\ MinimumOutcome
     /\ validateAmount(sendParams[1].amount, sendBalance) = ERR_MINIMUM

C10_Witness ==
  /\ sendParams # None
  /\ BelowMinimum(sendParams[1], sendBalance)
  /\ RecipientWellFormed(sendParams[1])
  /\ sendBalance = Num(5, 4)
  /\ sendPc = "done"

(***************************************************************************)
(* Claims about the claim flows (specification SpecClaim)                  *)
(***************************************************************************)
\* C4: a payment record is claimed successfully at most once: after a
\* confirmed claim every later claim of the same record fails.
C4_ClaimedAtMostOnce ==
  \A id \in PaymentIds : claimedCount[id] <= 1

\* C5: a payment whose claimed flag is true is not claimable: canClaim is
\* false for it, and its claim flow returns "Payment already claimed" having
\* sent nothing to the network.
C5_ClaimedIsRejected ==
  /\ \A i \in 1..Len(claimResults) :
       (claimPayments[i] # None /\ claimPayments[i][1].claimed) =>
         /\ ~canClaim(claimPayments[i][1].status, claimPayments[i][1].claimed)
         /\ claimResults[i] = ClaimResult(FALSE, "", ERR_ALREADY_CLAIMED, 0)
  /\ claimPc \in {"sendTransaction", "confirmTransaction", "delay"} =>
       ~claimPayments[claimIndex][1].claimed
  /\ (claimMode = "single" /\ claimPc = "done" /\ claimPayments[1] # None
        /\ claimPayments[1][1].claimed) => claimStatus = "error"

C5_Witness ==
  /\ claimPc = "done"
  /\ claimMode = "multi"
  /\ Len(claimResults) = 2
  /\ claimResults[1].success
  /\ claimPayments[2][1].claimed
  /\ claimPayments[2][1].status = "completed"
  /\ claimKeys

C18_CancelStopsAtBoundary ==
  scanCancelAt # -1 => scanResult.scanned = scanCancelAt

RECURSIVE SumSeq(_)
SumSeq(q) == IF q = <<>> THEN 0 ELSE Head(q) + SumSeq(Tail(q))

ScanTotal == Len(filteredAnnouncements(announcements, fromTimestamp))

\* C19: a scan over n announcements (after the timestamp filter) is made in
\* batches of at most 50, never more than ceil(n/50) of them, it always ends,
\* and when it has completed it has made exactly ceil(n/50) batches that
\* together hold every announcement once: scanned = n.
C19_ScanTerminatesInBatches ==
  /\ [](/\ \A b \in 1..Len(scanBatchSizes) : scanBatchSizes[b] \in 1..BATCH_SIZE
        /\ Len(scanBatchSizes) <= getBatchCount(ScanTotal)
        /\ scanResult.scanned = SumSeq(scanBatchSizes)
        /\ (scanPc = "done" /\ scanStage = "complete") =>
             /\ Len(scanBatchSizes) = getBatchCount(ScanTotal)
             /\ scanResult.scanned = ScanTotal)
  /\ (scanPc = "delay") ~> (scanPc = "done" /\ scanStage = "complete")

C19_Witness ==
  /\ scanPc = "done"
  /\ scanStage = "complete"
  /\ scanBatchSizes = <<BATCH_SIZE, 1>>
  /\ scanResult.scanned = 51

\* The announcements looked at so far that are owned and not already known.
OwnedUnknown ==
  LET filtered == filteredAnnouncements(announcements, fromTimestamp)
  IN {i \in 1..scanResult.scanned :
        filtered[i].isOurs /\ filtered[i].txHash \notin existingTxHashes}

\* C7: every payment of a scan comes from an announcement that is owned and
\* whose txHash is not in the known set, and there are exactly as many
\* payments as such announcements: one that is not owned, or already known,
\* produces no payment.
C7_PaymentsAreOwnedAndNew ==
  scanStage \in {"scanning", "complete"} =>
    /\ \A k \in 1..Len(scanResult.newPayments) :
         \E i \in 1..Len(announcements) :
           /\ announcements[i].isOurs
           /\ announcements[i].txHash \notin existingTxHashes
           /\ scanResult.newPayments[k] = PaymentOf(announcements[i])
    /\ Len(scanResult.newPayments) = Cardinality(OwnedUnknown)
    /\ scanResult.found = Len(scanResult.newPayments)

C7_Witness ==
  /\ scanPc = "done"
  /\ scanStage = "complete"
  /\ scanRound = 1
  /\ Len(scanResult.newPayments) = 1
  /\ scanResult.scanned = 3
  /\ \E i \in 1..3 : ~announcements[i].isOurs /\ announcements[i].txHash \notin existingTxHashes
  /\ \E i \in 1..3 : announcements[i].isOurs /\ announcements[i].txHash \in existingTxHashes

(***************************************************************************)
(* Claims about stealth meta-addresses (specification SpecStealth)         *)
(***************************************************************************)
RoundTripDone ==
  /\ stealthPc = "parsed"
  /\ metaAddress # None
  /\ IsValidMetaAddress(metaAddress[1])

\* C20 as stated: for every valid meta-address m, label or not,
\* parseStealthMetaAddress(formatStealthMetaAddress(m)) is non-null and equal
\* to m.
C20_Original ==
  RoundTripDone => stealthParsed = Some(metaAddress[1])

\* C20: for every valid meta-address m, parsing the formatted m gives a
\* non-null meta-address with the chain and the two keys of m and no label: it
\* is m when m has no label.
C20_RoundTripWithoutLabel ==
  RoundTripDone =>
    /\ stealthParsed # None
    /\ stealthParsed[1] = [metaAddress[1] EXCEPT !.label = None]

C20_Witness ==
  /\ RoundTripDone
  /\ metaAddress[1].label = None
  /\ metaAddress[1].spendingKey # metaAddress[1].viewingKey
  /\ Len(metaAddress[1].spendingKey) > 2
  /\ stealthParsed = Some(metaAddress[1])

(***************************************************************************)
(* Claims about encodeShieldedTransferData (specification SpecCodec)       *)
(***************************************************************************)
\* C12: codec round trip: for every valid ShieldedTransferArgs, the fields
\* read back at the documented offsets from the bytes that
\* encodeShieldedTransferData produced are the original field values.
C12_CodecRoundTrip ==
  IsValidArgs(codecArgs) =>
    /\ codecPc # "error"
    /\ codecPc = "decoded" =>
         /\ codecDecoded # None
         /\ codecDecoded[1].args = codecArgs
         /\ codecDecoded[1].discriminator = DISCRIMINATOR

C12_Witness ==
  /\ codecPc = "decoded"
  /\ IsValidArgs(codecArgs)
  /\ Len(codecArgs.encryptedAmount) = 300
  /\ Len(codecArgs.proof) = 128
  /\ codecArgs.actualAmount = BigInt(FALSE, <<513, 0, 0, 1027>>)
  /\ codecDecoded[1].args = codecArgs
  /\ codecDecoded[1].end = Len(codecData)

\* C13: the encoded instruction data is exactly
\* 8+33+32+33+32+4+len(encryptedAmount)+4+len(proof)+8 bytes long (346 for a
\* 64-byte encryptedAmount and a 128-byte proof), and the last field, the
\* 8-byte actualAmount, ends at the end of the buffer.
C13_EncodedLength ==
  IsValidArgs(codecArgs) =>
    /\ codecPc # "error"
    /\ codecPc \in {"encoded", "decoded"} =>
         /\ Len(codecData) = 8 + 33 + 32 + 33 + 32 + 4 + Len(codecArgs.encryptedAmount)
                               + 4 + Len(codecArgs.proof) + 8
         /\ (Len(codecArgs.encryptedAmount) = 64 /\ Len(codecArgs.proof) = 128)
              => Len(codecData) = 346
         /\ SubSeq(codecData, Len(codecData) - 7, Len(codecData))
              = BigUInt64LE(codecArgs.actualAmount)

C13_Witness ==
  /\ codecPc = "decoded"
  /\ IsValidArgs(codecArgs)
  /\ Len(codecArgs.encryptedAmount) = 64
  /\ Len(codecArgs.proof) = 128
  /\ Len(codecData) = 346
  /\ codecArgs.actualAmount = BigInt(FALSE, <<65535, 65535, 65535, 65535>>)

(***************************************************************************)
(* Claims about fetchConfig and buildShieldedTransfer with their data      *)
(* (specification SpecTransfer)                                            *)
(***************************************************************************)
\* C11: buildShieldedTransfer fails and returns no transaction when the
\* amount is below the minimum of 0.001, zero and negative amounts included.
C11_BelowMinimumFails ==
  xferPc = "returned" => ~Lt(xferParams[1].amount, MIN_AMOUNT)

\* C14: a config account shorter than the 8-byte discriminator plus the 76
\* bytes of fields is reported as an error and never decoded into a Config.
C14_TruncatedConfigIsError ==
  (accountInfo # None /\ Len(accountInfo[1]) < 8 + 76) => xferConfig = None

\* C15: "config account not found" is told apart from a failed fetch: the
\* error "Program not initialized - config account not found" is thrown only
\* when the account does not exist.
C15_NotFoundIsDistinguished ==
  xferError = ERR_NOT_INITIALIZED => xferFetch = "notFound"

Has(field) == xferLocals # None /\ field \in DOMAIN xferLocals[1]

\* C16: the encrypted amount can be decrypted with the viewing private key
\* and the published ephemeral public key alone.
C16_ViewingKeyDecrypts ==
  Has("encryptedAmount") =>
    decryptAmount(xferLocals[1].encryptedAmount,
                  deriveSharedSecret(xferParams[1].recipient.viewingPrivateKey,
                                     xferLocals[1].ephemeralKeyPair.publicKey))
      = Some(xferLocals[1].lamports)

\* C17: each call makes exactly one new ephemeral key pair and uses the
\* private half only for its own shared secret; the instruction data and the
\* result carry the public half, and nothing of the pair outlives the call
\* but that public half.
C17_EphemeralKeyStaysPrivate ==
  /\ \A k1, k2 \in DOMAIN xferKeyLog : xferKeyLog[k1] = xferKeyLog[k2] => k1 = k2
  /\ Has("ephemeralKeyPair") =>
       LET pair == xferLocals[1].ephemeralKeyPair
       IN /\ xferKeyLog[pair.privateKey[2]] = xferCalls
          /\ pair.publicKey = PublicOf(pair.privateKey)
          /\ xferLocals[1].sharedSecret
               = deriveSharedSecret(pair.privateKey, xferParams[1].recipientSpendingKey)
          /\ Has("transaction") =>
               xferLocals[1].transaction.data.ephemeralPubkey = pair.publicKey
  /\ xferPc \in {"idle", "fetchConfig", "returned", "failed"} => xferLocals = None
  /\ xferResult # None =>
       /\ DOMAIN xferResult[1] = {"transaction", "transferRecord", "ephemeralPubkey"}
       /\ \E k \in DOMAIN xferKeyLog :
            /\ xferKeyLog[k] = xferCalls
            /\ xferResult[1].ephemeralPubkey = PublicOf(PrivateKey(k))
            /\ xferResult[1].transaction.data.ephemeralPubkey = PublicOf(PrivateKey(k))

C17_Witness ==
  /\ xferPc = "returned"
  /\ xferCalls = 2
  /\ Cardinality(DOMAIN xferKeyLog) = 2
  /\ xferResult # None

(***************************************************************************)
(* Claims about buildShieldedTransfer (specification Spec)                 *)
(***************************************************************************)
ChainTotal == IF configAccount = None THEN 0 ELSE configAccount[1].totalTransfers
Returned(c) == transaction[c] # None
IsPrefix(s, t) == Len(s) <= Len(t) /\ SubSeq(t, 1, Len(s)) = s

\* C1: a call whose fetched config has paused = true throws "Program is
\* paused", returns no transaction and performs none of the cryptographic steps.
C1_PausedThrowsBeforeCrypto ==
  \A c \in Calls :
    (config[c] # None /\ config[c][1].paused) =>
      /\ pc[c] = "thrown"
      /\ error[c] = ERR_PAUSED
      /\ transaction[c] = None
      /\ \A s \in CryptoSteps : ~Did(c, s)

C1_Witness ==
  \E c \in Calls :
    config[c] # None /\ config[c][1].paused /\ pc[c] = "thrown"

\* C2: a call that returns a transaction has performed the steps fetch config,
\* check not paused, ephemeral key pair, shared secret, commitment, encryption,
\* ..., encoding exactly once each in the order of BuildSteps; signing and
\* submission come after all of them, only once the call has returned.
C2_StepsOnceInOrder ==
  \A c \in Calls :
    /\ Returned(c) =>
         /\ IsPrefix(BuildSteps, steps[c])
         /\ IsPrefix(steps[c], BuildSteps \o <<"sign", "sendTransaction">>)
         /\ \A i \in 1..Len(BuildSteps) : CountOf(c, BuildSteps[i]) = 1
    /\ (Did(c, "sign") \/ Did(c, "sendTransaction")) => Returned(c)

C2_Witness ==
  \E c \in Calls : Returned(c) /\ pc[c] = "confirmed" /\ Did(c, "sendTransaction")

\* C8: the transfer-record address of a call is derived from the totalTransfers
\* of the config fetched inside that call: a value the chain held between the
\* call's start and now, never one read before the call began.
C8_NonceFetchedInCall ==
  \A c \in Calls :
    transferRecord[c] # None =>
      /\ CountOf(c, "fetchConfig") = 1
      /\ config[c] # None
      /\ transferRecord[c][1] =
           getTransferRecordPda(sender[c], config[c][1].totalTransfers,
                                SIP_PRIVACY_PROGRAM_ID)
      /\ startTotal[c] <= config[c][1].totalTransfers
      /\ config[c][1].totalTransfers <= ChainTotal

C8_Witness ==
  \E c, d \in Calls :
    /\ c # d
    /\ pc[d] = "confirmed"
    /\ transferRecord[c] # None
    /\ startTotal[c] > 0
    /\ transferRecord[c] # transferRecord[d]

\* C9: two calls for the same sender that read the same totalTransfers (both
\* fetched before either transfer was confirmed) derive the same
\* transfer-record address.
C9_NonceRace ==
  \A c, d \in Calls :
    ( /\ c # d
      /\ transferRecord[c] # None /\ transferRecord[d] # None
      /\ sender[c] = sender[d]
      /\ config[c][1].totalTransfers = config[d][1].totalTransfers )
    => transferRecord[c] = transferRecord[d]

C9_Witness ==
  \E c, d \in Calls :
    /\ c # d
    /\ sender[c] = sender[d]
    /\ transferRecord[c] # None /\ transferRecord[c] = transferRecord[d]
    /\ pc[c] = "confirmed" /\ pc[d] = "sendFailed"
    /\ ~configAccount[1].paused

\* floor(x * 10^9) for the real number x that the number `amount` is
ExactLamports(amount) ==
  IF amount.num = 0 THEN 0
  ELSE LET x == ToDouble(amount.num, amount.scale)
       IN Floor([m |-> MulSmall(x.m, LAMPORTS_PER_SOL), e |-> x.e])

\* C30: in every instruction built by buildShieldedTransfer the value
\* committed to, the value encrypted, the value given to the proof and the
\* plaintext actualAmount are one value, floor(amount x 10^9).
C30_OneLamportsValue ==
  xferResult # None =>
    LET data == xferResult[1].transaction.data
        lamports == ExactLamports(xferParams[1].amount)
    IN /\ data.amountCommitment = <<"commitment", lamports>>
       /\ data.encryptedAmount.ciphertext[2] = lamports
       /\ data.proof[4] = lamports
       /\ data.actualAmount = BigIntOf(lamports)

\* C25: the newPayments a single scan returns never hold two payments with
\* the same txHash, also when the announcements list one transaction twice.
C25_NoDuplicateTxHash ==
  (scanPc = "done" /\ scanRound = 1) =>
    \A j, k \in 1..Len(scanResult.newPayments) :
      scanResult.newPayments[j].txHash = scanResult.newPayments[k].txHash => j = k

\* The strings the format accepts: "sip:", four parts between colons, a
\* supported chain, and two keys of one hex digit or more after an optional
\* "0x".
IsStealthMetaAddressString(str) ==
  LET parts == Split(str)
      IsHex(key) ==
        LET digits == IF StartsWith(key, HEX_PREFIX)
                        THEN SubSeq(key, Len(HEX_PREFIX) + 1, Len(key)) ELSE key
        IN digits # <<>> /\ \A i \in 1..Len(digits) : digits[i] \in HexChars
  IN /\ StartsWith(str, STEALTH_PREFIX)
     /\ Len(parts) = 4
     /\ parts[2] \in SupportedChains
     /\ IsHex(parts[3])
     /\ IsHex(parts[4])

C29_ZeroRemainingIsUnblocked ==
  (rateLast # None /\ rateLast[1].op = "getRateLimitRemaining"
     /\ rateLast[1].remaining = 0) =>
    ~isRateLimited(rateLimitMap, rateLast[1].action, rateParams[1].maxAttempts,
                   rateParams[1].windowMs, now).result

\* C24: in every state of the useSend hook, also with two send() calls under
\* way or a reset() during a send, status = 'confirmed' implies that txHash
\* is set and error is null.
C24_ConfirmedHasHashAndNoError ==
  hookStatus = "confirmed" => (hookTxHash # None /\ hookError = None)

\* C26: a verifyPin call authenticates only when, at that moment, the PIN
\* lockout is not in force, a PIN is set and the hash of the supplied PIN
\* equals the stored hash.
C26_AuthenticatesOnlyUnlockedAndEqual ==
  [][\A c \in PinSlots :
       (pinCalls[c].pc = "hashing" /\ pinCalls[c].op = "verifyPin"
          /\ pinCalls'[c].pc = "done" /\ pinCalls'[c].result[1].success) =>
         /\ ~isPinLocked(securityStore.pinLockedUntil, pinNow)
         /\ securityStore.pinEnabled
         /\ securityStore.pinHash = Some(hashPin(pinCalls[c].pin))]_vars

\* C23: two getSipPrivacyClient calls with no resetSipPrivacyClient between
\* them return the same client object, whatever connection and program id
\* they pass; the first call of the program, and the first after a reset,
\* returns an object no earlier call returned, bound to the connection and
\* the program id (the default one when omitted) passed to that call.
C23_SingletonUntilReset ==
  /\ \A i, j \in 1..Len(clientLog) :
       (i < j /\ clientLog[i].op = "get" /\ clientLog[j].op = "get"
          /\ \A k \in i..j : clientLog[k].op = "get") =>
         clientLog[i].returned = clientLog[j].returned
  /\ \A i \in 1..Len(clientLog) :
       (clientLog[i].op = "get" /\ (i = 1 \/ clientLog[i - 1].op = "reset")) =>
         /\ clientLog[i].returned # None
         /\ clientLog[i].returned[1].connection = clientLog[i].connection
         /\ clientLog[i].returned[1].programId =
              (IF clientLog[i].programId = None THEN SIP_PRIVACY_PROGRAM_ID
               ELSE clientLog[i].programId[1])
         /\ \A k \in 1..(i - 1) :
              clientLog[k].op = "get" =>
                clientLog[k].returned[1].id # clientLog[i].returned[1].id

C23_Witness ==
  /\ Len(clientLog) = 4
  /\ clientLog[1].op = "get" /\ clientLog[1].connection = "devnet"
  /\ clientLog[2].op = "get" /\ clientLog[2].connection = "mainnet"
  /\ clientLog[2].programId = Some("OtherProgram")
  /\ clientLog[2].returned = clientLog[1].returned
  /\ clientLog[3].op = "reset"
  /\ clientLog[4].op = "get" /\ clientLog[4].connection = "mainnet"
  /\ clientLog[4].returned[1].connection = "mainnet"
  /\ clientLog[4].returned # clientLog[1].returned

\* C27: from a disconnect() until a selectSeed call started after it has
\* succeeded, the wallet is null, and a signTransaction or signMessage call
\* made in that time throws 'No wallet connected' without calling the Seed
\* Vault.
C27_DisconnectedUntilNewSelect ==
  /\ (vaultEpoch > 0 /\ ~vaultReconnected) => vault.wallet = None
  /\ (vaultSign.pc # "idle" /\ vaultSign.disconnected) =>
       /\ vaultSign.pc = "rejected"
       /\ vaultSign.error = "No wallet connected"
       /\ ~vaultSign.vaultCalled

\* C28: the mount effect completes: isInitialized becomes true and isLoading
\* false, whatever the availability check, the listing and the selection
\* of the first seed deliver.
C28_InitialisationCompletes ==
  <>(vault.isInitialized /\ ~vault.isLoading)

C28_Witness ==
  /\ vaultInit.pc = "done" /\ vaultInit.seeds # <<>>
  /\ vaultSelect[0].pc = "rejected"
  /\ vault.isInitialized /\ ~vault.isLoading /\ vault.error # None

====
